---- MODULE Spec2Model ----
(***************************************************************************)
(* Motion-planning core of BeagleG (GCodeMachineControl::Impl): planning   *)
(* buffer, target builder, segmenter, junction solver, motor fan-out and   *)
(* the parser events that drive them.                                      *)
(*                                                                         *)
(* Numbers.  The program computes in 32-bit float.  Here                   *)
(*   - a speed is an integer number of 1/VS steps per second,              *)
(*   - an angle is an integer number of 1/100 degree,                      *)
(*   - a feedrate is an integer number of 1/1000 mm per second,            *)
(*   - a target coordinate is an integer number of 1/10 mm,                *)
(*   - sqrtf is the integer square root (rounded down),                    *)
(*   - a ramp fraction is a numerator over the common denominator          *)
(*     Q = 2 * a * S (in speed units squared).                             *)
(***************************************************************************)
EXTENDS Integers, Sequences, FiniteSets, TLC

\* ------------------------------------------------------------------ bounds
MaxEvents == 3        \* parser events per run of the planner (SpecPlan)
MaxAllEvents == 3     \* parser events per run of the whole machine (Spec)
MaxHomeSegs == 1      \* iterations of an endstop loop of homing/probing
MaxAuxEvents == 3     \* parser events per run with M-codes (SpecAux)
MaxAccelEvents == 3   \* parser events per run without acceleration (SpecAccel)
MaxHomeEvents == 3    \* parser events per run with homing (SpecHome)
MaxEndstopEvents == 2 \* parser events per run with endstop polls (SpecEndstop)
MaxPolls == 2         \* loop iterations counted; MaxPolls stands for more too
MaxRingEvents == 7    \* parser events per run around the ring buffer (SpecRing)

\* ------------------------------------------------------- numeric encoding
VS == 10              \* speed units per step/s
FINE == 1000          \* extra resolution of the junction solver's goal
DEG == 100            \* angle units per degree
MILLI == 1000         \* feed units per mm/s
DMM == 10             \* coordinate units per mm

Abs(x) == IF x < 0 THEN -x ELSE x
Sgn(x) == IF x < 0 THEN -1 ELSE IF x > 0 THEN 1 ELSE 0
Min(a, b) == IF a < b THEN a ELSE b

\* Division rounding to nearest, halves away from zero (roundf), d > 0.
RoundDiv(n, d) == Sgn(n) * ((2 * Abs(n) + d) \div (2 * d))

\* Division truncating toward zero (float -> int conversion), d > 0.
TruncDiv(n, d) == Sgn(n) * (Abs(n) \div d)

RECURSIVE SqrtIter(_, _, _)
SqrtIter(n, lo, hi) ==
  IF lo >= hi THEN lo
  ELSE LET mid == (lo + hi + 1) \div 2
       IN IF mid * mid <= n THEN SqrtIter(n, mid, hi)
          ELSE SqrtIter(n, lo, mid - 1)

\* sqrtf, rounded down; 46340^2 is the largest square TLC's integers hold.
ISqrt(n) == IF n <= 0 THEN 0 ELSE SqrtIter(n, 0, Min(n, 46340))

RECURSIVE Gcd(_, _)
Gcd(a, b) == IF b = 0 THEN a ELSE Gcd(b, a % b)

\* --------------------------------------------------------------- the axes
AXIS_X == 0
AXIS_Y == 1
AXIS_Z == 2
AXIS_E == 3
Axes == {AXIS_X, AXIS_Y, AXIS_Z, AXIS_E}
LastAxis == AXIS_E
Motors == 0 .. 5

HOMING_STATE_NEVER_HOMED == 0
HOMING_STATE_HOMED_BUT_MOTORS_UNPOWERED == 1
HOMING_STATE_HOMED == 2
HomingStates == {HOMING_STATE_NEVER_HOMED,
                 HOMING_STATE_HOMED_BUT_MOTORS_UNPOWERED,
                 HOMING_STATE_HOMED}

\* ----------------------------------------------------------------- state
VARIABLES
  cfg,                \* cfg_: the configuration handed to Create
  created,            \* Create returned a machine (not NULL)
  axis_to_driver,     \* axis_to_driver_[axis]: set of drivers
  g0_feedrate,        \* g0_feedrate_mm_per_sec_ (1/MILLI mm/s)
  planning_buffer,    \* planning_buffer_: ring_buffer, write_pos, read_pos
  homing_state,       \* homing_state_
  aux_bits,           \* aux_bits_
  current_feedrate,   \* current_feedrate_mm_per_sec_ (1/MILLI mm/s)
  prog_speed_factor,  \* prog_speed_factor_ (1/MILLI)
  call,               \* the move_machine_steps call of the last event
  prev_call,          \* the move_machine_steps call before that one
  enqueued,           \* MotorMovements the last event gave to Enqueue
  motor_ops,          \* the calls the last event made on motor_ops_
  total_steps,        \* per motor: sum of all steps enqueued since Create
  event,              \* the last parser event, its arguments and result
  history,            \* what has happened since Create
  nevents,            \* number of parser events so far
  endstop             \* move_to_endstop: the loop it is in, and its locals

vars == <<cfg, created, axis_to_driver, g0_feedrate, planning_buffer,
          homing_state, aux_bits, current_feedrate, prog_speed_factor, call,
          prev_call, enqueued, motor_ops, total_steps, event, history,
          nevents, endstop>>

config_vars == <<cfg, created, axis_to_driver, g0_feedrate>>

\* ------------------------------------------------- MachineControlConfig
\* One valid configuration (every field is an input of Create).
steps_per_mm == <<4, 4, 4, 1>>         \* indexed by axis + 1
max_feedrate == <<10, 10, 1, 5>>       \* mm/s
acceleration == <<4, 4, 5, 10>>        \* mm/s^2
move_range_mm == <<40, 40, 0, 3>>      \* mm; <= 0: not configured
speed_factor == 1
cfg_speed_factor == cfg.speed_factor   \* cfg_.speed_factor
threshold_angle == 10 * DEG

\* axis_mapping "XY_zEx": connector -> <<axis, is lowercase>>; -1 is '_'.
axis_mapping == << <<AXIS_X, FALSE>>, <<AXIS_Y, FALSE>>, <<-1, FALSE>>,
                   <<AXIS_Z, TRUE>>, <<AXIS_E, FALSE>>, <<AXIS_X, TRUE>> >>

\* home_order "ZEXY"
home_order == <<AXIS_Z, AXIS_E, AXIS_X, AXIS_Y>>

\* min_endswitch "X_z": X homes at its min switch; z (lowercase) is a probe.
\* max_endswitch "___E": E has its home at the max switch.
MinEndstopHoming == {AXIS_X}
MinEndstopProbe == {AXIS_Z}
MaxEndstopHoming == {AXIS_E}
MaxEndstopProbe == {}

Spm(k) == steps_per_mm[k + 1]

\* Create: axis_flip_[i] = steps_per_mm[i] < 0 ? -1 : 1, of the
\* configuration handed in
axis_flip(k) == IF cfg.steps_per_mm[k + 1] < 0 THEN -1 ELSE 1

\* Create: max_axis_speed_[i] = max_feedrate[i] * |steps_per_mm[i]|
max_axis_speed(k) == max_feedrate[k + 1] * Abs(Spm(k)) * VS

\* Create: max_axis_accel_[i] = acceleration[i] * |steps_per_mm[i]|
max_axis_accel(k) == cfg.acceleration[k + 1] * Abs(Spm(k))

\* Create: driver_flip_[pos] = lowercase ? -1 : 1 (0 where nothing is mapped)
driver_flip(m) ==
  IF axis_mapping[m + 1][1] = -1 THEN 0
  ELSE IF axis_mapping[m + 1][2] THEN -1 ELSE 1

\* Create: the bits the mapping string sets in axis_to_driver_[axis]
MappedDrivers(k) == {m \in Motors : axis_mapping[m + 1][1] = k}

\* Create: current_feedrate_mm_per_sec_ = max_feedrate[AXIS_X] / 10
InitialFeedrate == (max_feedrate[AXIS_X + 1] * MILLI) \div 10

\* Create: highest max_feedrate of all axes
HighestFeedrate ==
  CHOOSE f \in {max_feedrate[k + 1] : k \in Axes} :
    \A k \in Axes : max_feedrate[k + 1] <= f

\* GetHomeEndstop: dir = -1 for a min home switch, +1 for a max home
\* switch, 0 when the axis has no home switch (gpio descriptor 0).
HomeDir(k) ==
  IF k \in MinEndstopHoming THEN -1
  ELSE IF k \in MaxEndstopHoming THEN 1 ELSE 0

\* home_pos = (dir < 0) ? 0 : move_range_mm[axis], in steps
HomePosSteps(k) ==
  IF HomeDir(k) < 0 THEN 0 ELSE move_range_mm[k + 1] * Spm(k)

\* Create: initial machine position
BootPosition == [k \in Axes |-> IF HomeDir(k) # 0 THEN HomePosSteps(k) ELSE 0]

\* ------------------------------------------------------------ AxisTarget
ZeroAxes == [k \in Axes |-> 0]
ZeroMotors == [m \in Motors |-> 0]

AxisTarget(pos, delta, def, speed, angle, aux) ==
  [position_steps |-> pos, delta_steps |-> delta, defining_axis |-> def,
   speed |-> speed, angle |-> angle, aux_bits |-> aux]

\* round2int(axis[i] * steps_per_mm[i]); mm10 is the coordinate in 1/10 mm
round2int_mm(mm10, k) ==
  Sgn(mm10 * Spm(k)) * ((2 * Abs(mm10 * Spm(k)) + DMM) \div (2 * DMM))

\* atan2f(y, x) / pi * 180 in 1/100 degree, tabulated for the direction
\* vectors whose reduced components are at most 2.
Atan2Quadrant1(y, x) ==
  CASE y = 0 -> 0
    [] x = 0 -> 9000
    [] y = x -> 4500
    [] 2 * y = x -> 2657
    [] y = 2 * x -> 6343
    [] OTHER -> IF y < x THEN 2250 ELSE 6750

Atan2Deg(y, x) ==
  IF x = 0 /\ y = 0 THEN 0
  ELSE LET g == Gcd(Abs(y), Abs(x))
           q == Atan2Quadrant1(Abs(y) \div g, Abs(x) \div g)
       IN IF x >= 0 /\ y >= 0 THEN q
          ELSE IF x < 0 /\ y >= 0 THEN 18000 - q
          ELSE IF x < 0 /\ y < 0 THEN q - 18000
          ELSE -q

\* get_speed_for_axis, already under fabsf as move_machine_steps uses it:
\* |t.speed * delta_steps[axis] / delta_steps[defining_axis]|
AbsSpeedForAxis(t, axis) ==
  IF t.delta_steps[t.defining_axis] = 0 THEN 0
  ELSE (t.speed * Abs(t.delta_steps[axis]))
         \div Abs(t.delta_steps[t.defining_axis])

\* within_acceptable_range(new_val, old_val, 1e-5), both in 1/FINE units
within_acceptable_range(new_val, old_val) ==
  LET max_diff == old_val \div 100000
  IN ~(new_val < old_val - max_diff) /\ ~(new_val > old_val + max_diff)

\* The loop of determine_joining_speed from axis ai on; fds is
\* from_defining_speed in 1/FINE speed units.
RECURSIVE JoinAxes(_, _, _, _, _, _, _)
JoinAxes(from, to, threshold, angle, ai, is_first, fds) ==
  IF ai > LastAxis THEN fds \div FINE
  ELSE
    LET from_delta == from.delta_steps[ai]
        to_delta == to.delta_steps[ai]
        from_def == from.delta_steps[from.defining_axis]
        to_def == to.delta_steps[to.defining_axis]
        goal_sign == Sgn(to_delta) * Sgn(to_def) * Sgn(from_def) * Sgn(from_delta)
        goal_abs == IF to_def = 0 THEN 0
                    ELSE (to.speed * Abs(to_delta) * Abs(from_def) * FINE)
                           \div (Abs(to_def) * Abs(from_delta))
    IN IF angle < threshold
         THEN JoinAxes(from, to, threshold, angle, ai + 1, is_first, fds)
       ELSE IF from_delta = 0 /\ to_delta = 0
         THEN JoinAxes(from, to, threshold, angle, ai + 1, is_first, fds)
       ELSE IF from_delta = 0 \/ to_delta = 0 THEN 0
       ELSE IF (from_delta < 0 /\ to_delta > 0) \/ (from_delta > 0 /\ to_delta < 0)
         THEN 0
       ELSE IF goal_sign < 0 /\ goal_abs > 0 THEN 0
       ELSE IF is_first \/ within_acceptable_range(goal_abs, fds)
         THEN JoinAxes(from, to, threshold, angle, ai + 1, FALSE,
                       Min(goal_abs, fds))
       ELSE 0

\* A variant that stops at every junction.
determine_joining_speed_zero(from, to, threshold, angle) == 0

determine_joining_speed(from, to, threshold, angle) ==
  JoinAxes(from, to, threshold, angle, AXIS_X, TRUE, from.speed * FINE)

\* get_peak_speed(s, v0, v2, a) = sqrtf(v2*v2 + v0*v0 + 2*a*s) / sqrtf(2)
get_peak_speed(s, v0, v2, a) ==
  ISqrt((v2 * v2 + v0 * v0 + 2 * a * VS * VS * s) \div 2)

\* The denominator of the steps steps_for_speed_change returns
RampDenFor(a) == IF a = 0 THEN 1 ELSE 2 * a * VS * VS

\* steps_for_speed_change(a, v0, &v1, max_steps): the steps
\* (v1^2 - v0^2) / (2a) as a numerator over 2*|a|*VS^2, and the possibly
\* corrected *v1.  sgn is +1 for acceleration and -1 for deceleration.
\* With a = 0 the float t is infinite and steps is NaN, "steps <= max_steps"
\* is false: *v1 = sqrtf(v0*v0) and max_steps is returned (over RampDenFor).
steps_for_speed_change(sgn, a, v0, v1, max_steps) ==
  LET den == 2 * a * VS * VS
      num == sgn * (v1 * v1 - v0 * v0)
  IN IF a = 0
       THEN [num |-> max_steps * RampDenFor(a), v1 |-> v0]
     ELSE IF num <= max_steps * den
       THEN [num |-> num, v1 |-> v1]
       ELSE [num |-> max_steps * den,
             v1 |-> ISqrt(v0 * v0 + sgn * den * max_steps)]

\* acceleration_for_move
acceleration_for_move(defining_axis) == max_axis_accel(defining_axis)

\* assign_steps_to_motors on the step vector of one command
assign_steps_to_motors(steps, a2d, axis, n) ==
  [m \in Motors |->
     IF m \in a2d[axis] THEN axis_flip(axis) * driver_flip(m) * n
     ELSE steps[m]]

\* The "for (i = 0; i < GCODE_NUM_AXES; ++i) assign_steps_to_motors(...)"
\* loops: the steps of axis i are RoundDiv(num * axis_steps[i], den).
RECURSIVE AssignAllAxes(_, _, _, _, _, _)
AssignAllAxes(steps, a2d, axis_steps, num, den, i) ==
  IF i > LastAxis THEN steps
  ELSE AssignAllAxes(
         assign_steps_to_motors(steps, a2d, i, RoundDiv(num * axis_steps[i], den)),
         a2d, axis_steps, num, den, i + 1)

\* substract_steps: the new value
substract_steps(value, substract) ==
  [m \in Motors |-> value[m] - substract[m]]

HasNonzero(steps) == \E m \in Motors : steps[m] # 0

MotorMovement(kind, steps, v0, v1, aux) ==
  [kind |-> kind, steps |-> steps, v0 |-> v0, v1 |-> v1, aux_bits |-> aux]

\* ------------------------------------------------------------- Segmenter
\* move_machine_steps(last_pos, target_pos, upcoming): the MotorMovements
\* it enqueues (segs, in order), target_pos as it leaves it, and the values
\* of its locals.  ok_* are the conditions of its three assert()s.
NullTarget == AxisTarget(ZeroAxes, ZeroAxes, AXIS_X, 0, 0, 0)

NoCall ==
  [called |-> FALSE, skipped |-> TRUE, segs |-> <<>>,
   last |-> NullTarget, target |-> NullTarget, out |-> NullTarget,
   upcoming |-> NullTarget,
   last_speed |-> 0, next_speed |-> 0, peak_speed |-> 0, cruise |-> 0,
   acc_num |-> 0, dec_num |-> 0, Q |-> 1, do_accel |-> FALSE,
   ok_speed |-> TRUE, ok_peak |-> TRUE, ok_fraction |-> TRUE,
   ops |-> << >>]

\* |delta_steps| of the defining axis, and the denominator 2*a*VS^2 of the
\* ramp lengths of a target
DefiningSteps(t) == Abs(t.delta_steps[t.defining_axis])
RampDen(t) == RampDenFor(acceleration_for_move(t.defining_axis))

\* A variant that gives the segments the aux bits of the upcoming target.
move_command_aux_bits_upcoming(target_pos, upcoming) == upcoming.aux_bits

\* move_command.aux_bits = target_pos->aux_bits, copied to accel_command
\* and decel_command (lines 588-594)
move_command_aux_bits(target_pos, upcoming) == target_pos.aux_bits

\* The calls move_machine_steps makes on motor_ops_ (lines 697-702): one
\* WaitQueueEmpty() in synchronous mode, then an Enqueue() per segment.
SegmenterOps(synchronous, nsegs) ==
  (IF synchronous THEN << "WaitQueueEmpty" >> ELSE << >>)
  \o [i \in 1 .. nsegs |-> "Enqueue"]

\* move_machine_steps, last part (lines 690-702): the cruise is what the
\* ramps leave over; has_move is what substract_steps returns.  The cruise
\* keeps the v0 = v1 assigned before target_pos->speed was adjusted.
EnqueueSegments(last_pos, target_pos, upcoming, a2d, last_speed, next_speed, peak_speed, acc, dec, do_accel, accel_steps, decel_steps, move_steps) ==
  LET has_accel == do_accel /\ acc.num > 0
      has_decel == do_accel /\ dec.num > 0
      aux == move_command_aux_bits(target_pos, upcoming)
  IN [called |-> TRUE, skipped |-> FALSE,
      last |-> last_pos, target |-> target_pos, upcoming |-> upcoming,
      out |-> [target_pos EXCEPT
                 !.speed = IF has_decel THEN next_speed ELSE acc.v1],
      segs |->
        (IF has_accel
           THEN << MotorMovement("accel", accel_steps, last_speed, acc.v1, aux) >>
           ELSE << >>)
        \o (IF HasNonzero(move_steps)
              THEN << MotorMovement("move", move_steps, target_pos.speed,
                                    target_pos.speed, aux) >>
              ELSE << >>)
        \o (IF has_decel
              THEN << MotorMovement("decel", decel_steps, acc.v1, next_speed, aux) >>
              ELSE << >>),
      last_speed |-> last_speed, next_speed |-> next_speed,
      peak_speed |-> peak_speed, cruise |-> acc.v1,
      acc_num |-> acc.num, dec_num |-> dec.num,
      Q |-> RampDen(target_pos) * DefiningSteps(target_pos),
      do_accel |-> do_accel,
      ops |-> SegmenterOps(cfg.synchronous,
                           (IF has_accel THEN 1 ELSE 0)
                           + (IF HasNonzero(move_steps) THEN 1 ELSE 0)
                           + (IF has_decel THEN 1 ELSE 0)),
      ok_speed |-> target_pos.speed > 0,
      ok_peak |-> peak_speed > 0,
      ok_fraction |-> acc.num + dec.num
                        <= RampDen(target_pos) * DefiningSteps(target_pos)
                           + (RampDen(target_pos) * DefiningSteps(target_pos))
                               \div 10000]

\* lines 690-696: move_command gets all steps, minus both ramps
CruiseSteps(last_pos, target_pos, upcoming, a2d, last_speed, next_speed, peak_speed, acc, dec, do_accel, accel_steps, decel_steps) ==
  EnqueueSegments(last_pos, target_pos, upcoming, a2d, last_speed, next_speed,
                  peak_speed, acc, dec, do_accel, accel_steps, decel_steps,
                  substract_steps(
                    substract_steps(
                      AssignAllAxes(ZeroMotors, a2d, target_pos.delta_steps,
                                    1, 1, AXIS_X),
                      accel_steps),
                    decel_steps))

\* lines 660-686: the steps of the two ramps, round2int(fraction * steps)
RampSteps(last_pos, target_pos, upcoming, a2d, last_speed, next_speed, peak_speed, acc, dec, do_accel) ==
  CruiseSteps(last_pos, target_pos, upcoming, a2d, last_speed, next_speed,
              peak_speed, acc, dec, do_accel,
              IF do_accel /\ acc.num > 0
                THEN AssignAllAxes(ZeroMotors, a2d, target_pos.delta_steps,
                                   acc.num,
                                   RampDen(target_pos) * DefiningSteps(target_pos),
                                   AXIS_X)
                ELSE ZeroMotors,
              IF do_accel /\ dec.num > 0
                THEN AssignAllAxes(ZeroMotors, a2d, target_pos.delta_steps,
                                   dec.num,
                                   RampDen(target_pos) * DefiningSteps(target_pos),
                                   AXIS_X)
                ELSE ZeroMotors)

\* lines 645-651: do_accel = (accel_decel_mm > 2 || accel_decel_steps > 16),
\* accel_decel_mm = accel_decel_steps / cfg_.steps_per_mm[defining_axis]
DoAccel(target_pos, acc, dec) ==
  LET accel_decel_steps == (acc.num + dec.num) \div RampDen(target_pos)
      spm == Spm(target_pos.defining_axis)
  IN (spm > 0 /\ accel_decel_steps > 2 * spm) \/ accel_decel_steps > 16

\* lines 631-637: decel_fraction
DecelRamp(last_pos, target_pos, upcoming, a2d, last_speed, next_speed, peak_speed, acc) ==
  LET dec == IF next_speed < acc.v1
               THEN steps_for_speed_change(
                      -1, acceleration_for_move(target_pos.defining_axis),
                      acc.v1, next_speed, DefiningSteps(target_pos))
               ELSE [num |-> 0, v1 |-> next_speed]
  IN RampSteps(last_pos, target_pos, upcoming, a2d, last_speed, next_speed,
               peak_speed, acc, dec, DoAccel(target_pos, acc, dec))

\* lines 621-629: target_pos->speed limited to peak_speed, accel_fraction
AccelRamp(last_pos, target_pos, upcoming, a2d, last_speed, next_speed, peak_speed) ==
  LET speed1 == IF peak_speed < target_pos.speed THEN peak_speed
                ELSE target_pos.speed
  IN DecelRamp(last_pos, target_pos, upcoming, a2d, last_speed, next_speed,
               peak_speed,
               IF last_speed < speed1
                 THEN steps_for_speed_change(
                        1, acceleration_for_move(target_pos.defining_axis),
                        last_speed, speed1, DefiningSteps(target_pos))
                 ELSE [num |-> 0, v1 |-> speed1])

\* lines 611-616: peak_speed
PeakSpeed(last_pos, target_pos, upcoming, a2d, last_speed, next_speed) ==
  AccelRamp(last_pos, target_pos, upcoming, a2d, last_speed, next_speed,
            get_peak_speed(DefiningSteps(target_pos), last_speed, next_speed,
                           acceleration_for_move(target_pos.defining_axis)))

move_machine_steps(last_pos, target_pos, upcoming, a2d) ==
  IF target_pos.delta_steps[target_pos.defining_axis] = 0
    THEN [NoCall EXCEPT !.called = TRUE, !.last = last_pos,
                        !.target = target_pos, !.out = target_pos,
                        !.upcoming = upcoming]
    ELSE PeakSpeed(last_pos, target_pos, upcoming, a2d,
                   AbsSpeedForAxis(last_pos, target_pos.defining_axis),
                   determine_joining_speed(
                     target_pos, upcoming, threshold_angle,
                     Abs(last_pos.angle - target_pos.angle)))

\* ------------------------------------------------------- planning buffer
\* The ring of four AxisTargets with its read and write cursor.
RingSize == 4
Slots == 0 .. (RingSize - 1)

BufSize(b) == (b.write_pos + RingSize - b.read_pos) % RingSize
BackSlot(b) == (b.write_pos + RingSize - 1) % RingSize
BufBack(b) == b.ring_buffer[BackSlot(b)]
BufPeek(b, i) == b.ring_buffer[(b.read_pos + i) % RingSize]

\* append(): the slot handed out keeps what was stored in it before.
AppendOk(b) == BufSize(b) < RingSize - 1
BufAppend(b) == [b EXCEPT !.write_pos = (b.write_pos + 1) % RingSize]
BufSetBack(b, t) == [b EXCEPT !.ring_buffer[BackSlot(b)] = t]
\* A variant of pop_front() that leaves the oldest entry in the buffer.
BufPopFrontKeep(b) == b

BufPopFront(b) == [b EXCEPT !.read_pos = (b.read_pos + 1) % RingSize]

\* move_machine_steps has returned c: target_pos (planning_buffer_[1]) is
\* as the call left it, then pop_front()
Issued(b, c) ==
  [buf |-> BufPopFront([b EXCEPT
                          !.ring_buffer[(b.read_pos + 1) % RingSize] = c.out]),
   call |-> c]

\* A variant that hands the newest target to the Segmenter.
issue_motor_move_newest_first(b, a2d) ==
  IF BufSize(b) >= 3
    THEN Issued(b, move_machine_steps(BufPeek(b, 0), BufPeek(b, 2),
                                      BufPeek(b, 2), a2d))
    ELSE [buf |-> b, call |-> NoCall]

\* issue_motor_move_if_possible: the buffer afterwards and the call made
\* A variant that waits for a buffer of RingSize targets.
issue_motor_move_if_full(b, a2d) ==
  IF BufSize(b) >= RingSize
    THEN Issued(b, move_machine_steps(BufPeek(b, 0), BufPeek(b, 1),
                                      BufPeek(b, 2), a2d))
    ELSE [buf |-> b, call |-> NoCall]

issue_motor_move_if_possible(b, a2d) ==
  IF BufSize(b) >= 3
    THEN Issued(b, move_machine_steps(BufPeek(b, 0), BufPeek(b, 1),
                                      BufPeek(b, 2), a2d))
    ELSE [buf |-> b, call |-> NoCall]

\* ---------------------------------------------------------- Target Builder
\* A variant in which the last of several equal axes wins.
RECURSIVE DefiningAxisLastWins(_, _, _, _)
DefiningAxisLastWins(delta, i, max_steps, best) ==
  IF i > LastAxis THEN best
  ELSE IF Abs(delta[i]) >= max_steps
    THEN DefiningAxisLastWins(delta, i + 1, Abs(delta[i]), i)
    ELSE DefiningAxisLastWins(delta, i + 1, max_steps, best)

\* The axis with the most steps, lowest index first (max_steps starts at -1)
RECURSIVE DefiningAxis(_, _, _, _)
DefiningAxis(delta, i, max_steps, best) ==
  IF i > LastAxis THEN best
  ELSE IF Abs(delta[i]) > max_steps
    THEN DefiningAxis(delta, i + 1, Abs(delta[i]), i)
    ELSE DefiningAxis(delta, i + 1, max_steps, best)

\* delta_steps[k] / steps_per_mm[k] for X, Y, Z on the common scale
\* SpmXYZ (so that the lengths stay integers)
SpmXYZ == Abs(Spm(AXIS_X) * Spm(AXIS_Y) * Spm(AXIS_Z))
LenMM(delta, k) == delta[k] * (SpmXYZ \div Abs(Spm(k))) * Sgn(Spm(k))

\* euclid_distance(x, y, z), ten times finer than LenMM
euclid_distance(x, y, z) == ISqrt(100 * (x * x + y * y + z * z))

\* A variant without the Euclidean fraction.
TravelSpeedAlongAxis(feedrate, delta, defining_axis) ==
  IF (feedrate * Spm(defining_axis) * VS) \div MILLI
       > max_axis_speed(defining_axis)
    THEN max_axis_speed(defining_axis)
    ELSE (feedrate * Spm(defining_axis) * VS) \div MILLI

\* The travel speed machine_move computes (1/VS steps/s); feedrate is in
\* 1/MILLI mm/s.
TravelSpeed(feedrate, delta, defining_axis) ==
  LET plain == (feedrate * Spm(defining_axis) * VS) \div MILLI
      total_xyz_len_mm == euclid_distance(LenMM(delta, AXIS_X),
                                          LenMM(delta, AXIS_Y),
                                          LenMM(delta, AXIS_Z))
      euclid == IF defining_axis \in {AXIS_X, AXIS_Y, AXIS_Z}
                  THEN (plain * Abs(LenMM(delta, defining_axis)) * 10)
                         \div total_xyz_len_mm
                  ELSE plain
  IN IF euclid > max_axis_speed(defining_axis)
       THEN max_axis_speed(defining_axis) ELSE euclid

\* A variant that takes the steps of the target as the steps to move.
DeltaStepsFromOrigin(pos, previous) == [k \in Axes |-> pos[k]]

\* machine_move: delta_steps[i] = position_steps[i] - previous position_steps[i]
DeltaSteps(pos, previous) ==
  [k \in Axes |-> pos[k] - previous.position_steps[k]]

\* The AxisTarget machine_move writes into the appended slot
NewTarget(previous, feedrate, axis, aux) ==
  LET pos == [k \in Axes |-> round2int_mm(axis[k + 1], k)]
      delta == DeltaSteps(pos, previous)
      defining_axis == DefiningAxis(delta, AXIS_X, -1, AXIS_X)
      max_steps == Abs(delta[defining_axis])
      angle == IF max_steps > 0
                  /\ defining_axis \in {AXIS_X, AXIS_Y, AXIS_Z}
                  /\ delta[AXIS_Z] = 0
                 THEN Atan2Deg(LenMM(delta, AXIS_Y), LenMM(delta, AXIS_X))
                 ELSE previous.angle + 180 * DEG
      speed == IF max_steps > 0
                 THEN TravelSpeed(feedrate, delta, defining_axis) ELSE 0
  IN AxisTarget(pos, delta, defining_axis, speed, angle, aux)

\* machine_move: append, fill the slot, issue_motor_move_if_possible
machine_move(b, feedrate, axis, aux, a2d) ==
  issue_motor_move_if_possible(
    BufSetBack(BufAppend(b), NewTarget(BufBack(b), feedrate, axis, aux)),
    a2d)

\* A variant that appends the halt target and leaves it at that.
bring_path_to_halt_no_issue(b, aux, a2d) ==
  [buf |-> BufSetBack(BufAppend(b),
                      AxisTarget(BufBack(b).position_steps, ZeroAxes, AXIS_X,
                                 0, BufBack(BufAppend(b)).angle, aux)),
   call |-> NoCall]

\* bring_path_to_halt: the slot's angle is left as it was
bring_path_to_halt(b, aux, a2d) ==
  issue_motor_move_if_possible(
    BufSetBack(BufAppend(b),
               AxisTarget(BufBack(b).position_steps, ZeroAxes, AXIS_X, 0,
                          BufBack(BufAppend(b)).angle, aux)),
    a2d)

\* ---------------------------------------------------- Create and new Impl
\* The configurations explored: require_homing, range_check, synchronous
\* and the steps_per_mm handed in (steps_per_mm itself, or X reversed)
ReversedX == [steps_per_mm EXCEPT ![AXIS_X + 1] = -@]

Configs ==
  { [require_homing |-> FALSE, range_check |-> FALSE, synchronous |-> FALSE,
     steps_per_mm |-> steps_per_mm, acceleration |-> acceleration,
     speed_factor |-> speed_factor],
    [require_homing |-> TRUE,  range_check |-> TRUE, synchronous |-> FALSE,
     steps_per_mm |-> steps_per_mm, acceleration |-> acceleration,
     speed_factor |-> speed_factor],
    [require_homing |-> FALSE, range_check |-> FALSE, synchronous |-> FALSE,
     steps_per_mm |-> ReversedX, acceleration |-> acceleration,
     speed_factor |-> speed_factor] }

AuxConfigs ==
  { [require_homing |-> FALSE, range_check |-> FALSE, synchronous |-> FALSE,
     steps_per_mm |-> steps_per_mm, acceleration |-> acceleration,
     speed_factor |-> speed_factor],
    [require_homing |-> FALSE, range_check |-> TRUE, synchronous |-> TRUE,
     steps_per_mm |-> steps_per_mm, acceleration |-> acceleration,
     speed_factor |-> speed_factor],
    [require_homing |-> TRUE, range_check |-> TRUE, synchronous |-> FALSE,
     steps_per_mm |-> steps_per_mm, acceleration |-> acceleration,
     speed_factor |-> speed_factor] }

\* A machine whose Y axis has acceleration 0 (Create refuses negative
\* accelerations only), one with speed_factor 0 (Create does not look at
\* it), and the machine with the values above
NoAccelerationY == <<4, 0, 5, 10>>
AccelConfigs ==
  { [require_homing |-> FALSE, range_check |-> FALSE, synchronous |-> FALSE,
     steps_per_mm |-> steps_per_mm, acceleration |-> NoAccelerationY,
     speed_factor |-> speed_factor],
    [require_homing |-> FALSE, range_check |-> FALSE, synchronous |-> FALSE,
     steps_per_mm |-> steps_per_mm, acceleration |-> acceleration,
     speed_factor |-> 0],
    [require_homing |-> FALSE, range_check |-> FALSE, synchronous |-> FALSE,
     steps_per_mm |-> steps_per_mm, acceleration |-> acceleration,
     speed_factor |-> speed_factor] }

\* What "new Impl" leaves in the members no constructor initialises
\* (homing_state_, aux_bits_, g0_feedrate_mm_per_sec_, axis_to_driver_)
\* and in the AxisTarget slots of the ring (angle): either zeroed memory
\* or whatever the allocator hands out.
MemoryImages ==
  { [homing_state |-> HOMING_STATE_NEVER_HOMED, aux_bits |-> 0,
     g0_feedrate |-> 0, extra_driver |-> [k \in Axes |-> {}], angle |-> 0],
    [homing_state |-> HOMING_STATE_HOMED_BUT_MOTORS_UNPOWERED, aux_bits |-> 1,
     g0_feedrate |-> 20 * MILLI,
     extra_driver |-> [k \in Axes |-> IF k = AXIS_Y THEN {0} ELSE {}],
     angle |-> 90 * DEG],
    [homing_state |-> HOMING_STATE_HOMED, aux_bits |-> 0,
     g0_feedrate |-> 0, extra_driver |-> [k \in Axes |-> {}],
     angle |-> 180 * DEG] }

\* Create, on the memory image mem
InitBuffer(mem) ==
  [ring_buffer |->
     [i \in Slots |->
        IF i = 0 THEN AxisTarget(BootPosition, ZeroAxes, AXIS_X, 0, mem.angle,
                                 mem.aux_bits)
        ELSE AxisTarget(ZeroAxes, ZeroAxes, AXIS_X, 0, mem.angle, mem.aux_bits)],
   write_pos |-> 1, read_pos |-> 0]

\* No handler is inside move_to_endstop.  kind is the handler that called
\* it, order the index into home_order, polls and backoffs the iterations of
\* the two loops so far (counted up to MaxPolls, odd tells an odd number of
\* them), read what the last get_gpio() compared to.
NoEndstopLoop ==
  [loop |-> "none", kind |-> "none", axis |-> 0, order |-> 0, bitmap |-> {},
   feedrate |-> 0, polls |-> 0, backoffs |-> 0, odd |-> FALSE,
   read |-> FALSE]

NoEvent == [kind |-> "create", accepted |-> TRUE, feed |-> 0,
            axis |-> <<0, 0, 0, 0>>, size_before |-> 0,
            homing_before |-> HOMING_STATE_NEVER_HOMED, result |-> 0]

\* Create, lines 1189-1232: an axis that has a driver must have
\* cfg_.steps_per_mm > 0 and cfg_.max_feedrate > 0, or Create returns NULL.
\* cfg_ is the configuration as handed in (Impl::Impl copies it, line 218);
\* the copy Create makes positive (lines 1047-1051) is a local.
CreateOk(c, a2d) ==
  \A i \in Axes :
    a2d[i] # {} => (c.steps_per_mm[i + 1] > 0 /\ max_feedrate[i + 1] > 0)

\* Create(c) on the memory image mem.  Every machine Create returns has
\* cfg_.steps_per_mm = steps_per_mm, which is what Spm reads.
Create(c, mem) ==
  /\ cfg = c
  /\ axis_to_driver = [k \in Axes |-> MappedDrivers(k) \cup mem.extra_driver[k]]
  /\ created = CreateOk(c, axis_to_driver)
  /\ g0_feedrate = IF HighestFeedrate * MILLI > mem.g0_feedrate
                     THEN HighestFeedrate * MILLI ELSE mem.g0_feedrate
  /\ planning_buffer = InitBuffer(mem)
  /\ homing_state = mem.homing_state
  /\ aux_bits = mem.aux_bits
  /\ current_feedrate = InitialFeedrate
  /\ prog_speed_factor = MILLI
  /\ call = NoCall
  /\ prev_call = NoCall
  /\ enqueued = << >>
  /\ motor_ops = << >>
  /\ total_steps = ZeroMotors
  /\ event = NoEvent
  /\ history = [homed |-> FALSE, probed |-> FALSE, append_ok |-> TRUE,
                asserts_ok |-> TRUE, moves |-> 0,
                last_axis |-> <<0, 0, 0, 0>>, streak |-> 0]
  /\ nevents = 0
  /\ endstop = NoEndstopLoop

Init == \E c \in Configs, mem \in MemoryImages : Create(c, mem)

InitAux == \E c \in AuxConfigs, mem \in MemoryImages : Create(c, mem)

InitAccel == \E c \in AccelConfigs, mem \in MemoryImages : Create(c, mem)

RECURSIVE SumSteps(_, _)
SumSteps(segs, m) ==
  IF segs = << >> THEN 0 ELSE Head(segs).steps[m] + SumSteps(Tail(segs), m)

\* The calls an event makes on motor_ops_ after bring_path_to_halt():
\* Enqueue() and WaitQueueEmpty() per MotorMovement of move_to_endstop
\* (lines 942-943, 954-955), WaitQueueEmpty() of dwell (line 874),
\* MotorEnable() of motors_enable (line 238).
RECURSIVE EndstopOps(_)
EndstopOps(n) ==
  IF n <= 0 THEN << >>
  ELSE << "Enqueue", "WaitQueueEmpty" >> \o EndstopOps(n - 1)

AfterOps(extra, ev) ==
  EndstopOps(Len(extra))
  \o (IF ev.kind = "dwell" THEN << "WaitQueueEmpty" >> ELSE << >>)
  \o (IF ev.kind = "motors_enable" THEN << "MotorEnable" >> ELSE << >>)

\* Bookkeeping common to all events: r is the result of
\* issue_motor_move_if_possible, extra the MotorMovements enqueued after it.
Recorded(r, extra, ev) ==
  /\ call' = r.call
  /\ prev_call' = IF call.called THEN call ELSE prev_call
  /\ enqueued' = r.call.segs \o extra
  /\ motor_ops' = r.call.ops \o AfterOps(extra, ev)
  /\ total_steps' = [m \in Motors |->
                       total_steps[m] + SumSteps(r.call.segs \o extra, m)]
  /\ event' = ev
  /\ nevents' = nevents + 1

\* ... by a handler that runs to its end within the step
Record(r, extra, ev) == Recorded(r, extra, ev) /\ UNCHANGED endstop

Refused(ev) ==
  /\ call' = NoCall
  /\ prev_call' = IF call.called THEN call ELSE prev_call
  /\ enqueued' = << >>
  /\ motor_ops' = << >>
  /\ event' = ev
  /\ nevents' = nevents + 1
  /\ UNCHANGED <<total_steps, planning_buffer, history, endstop>>

AssertsOk(r) == r.call.ok_speed /\ r.call.ok_peak /\ r.call.ok_fraction

\* history after an event that appended to the buffer b and got r from
\* issue_motor_move_if_possible
Appended(b, r) ==
  [history EXCEPT !.append_ok = @ /\ AppendOk(b),
                  !.asserts_ok = @ /\ AssertsOk(r)]

\* ... and that was an accepted move to axis
Moved(b, r, axis) ==
  [Appended(b, r) EXCEPT
     !.moves = @ + 1,
     !.last_axis = axis,
     !.streak = IF history.moves > 0 /\ history.last_axis = axis
                  THEN @ + 1 ELSE 1]

\* ------------------------------------------------------------ the inputs
\* Targets of moves (X, Y, Z, E in 1/10 mm) and feeds (1/MILLI mm/s)
Targets ==
  { <<100, 0, 0, 30>>, <<200, 0, 0, 30>>, <<300, 0, 0, 30>>,
    <<100, 100, 0, 30>>, <<200, 0, 90, 30>>, <<101, 0, 0, 35>> }
Feeds == {0, 5 * MILLI}
RapidTargets == { <<100, 0, 0, 30>>, <<200, 0, 0, 30>>, <<300, 0, 0, 30>> }
RapidFeeds == {0}
AllTargets == { <<100, 0, 0, 30>>, <<200, 0, 0, 30>> }
AllFeeds == {5 * MILLI}
HomeBitmaps == { {AXIS_X} }
HomingBitmaps ==
  { {AXIS_X}, {AXIS_X, AXIS_E}, {AXIS_Y, AXIS_E}, {AXIS_X, AXIS_Y, AXIS_Z, AXIS_E} }
ProbeAxes == {AXIS_X, AXIS_Z}

\* For the runs with M-codes: two targets in range, one below zero, one
\* beyond move_range_mm of E; the M-codes as <<code, P, S>> (-1: not given);
\* the arguments of set_speed_factor (1/MILLI)
AuxTargets ==
  { <<100, 0, 0, 30>>, <<200, 0, 0, 30>>, <<-10, 0, 0, 30>>, <<100, 0, 0, 35>> }
AuxFeeds == {5 * MILLI}
\* For the runs on ramps: corners, a turnaround and a short move (9 steps
\* on X), at two feeds that differ by 1%
AccelTargets ==
  { <<0, 0, 0, 30>>, <<100, 0, 0, 30>>, <<0, 100, 0, 30>>,
    <<100, 100, 0, 30>>, <<200, 100, 0, 30>>, <<22, 100, 0, 30>> }
AccelFeeds == {5 * MILLI, 5050}
AuxCommands == { <<7, -1, -1>>, <<63, 0, -1>>, <<42, 1, 1>> }
SpeedFactors == {500, -500, 3, -998}

\* --------------------------------------------------------------- events
\* A variant that also refuses while the motors are unpowered.
test_homing_status_ok_homed_only ==
  IF ~cfg.require_homing THEN TRUE
  ELSE homing_state >= HOMING_STATE_HOMED

test_homing_status_ok ==
  IF ~cfg.require_homing THEN TRUE
  ELSE homing_state > HOMING_STATE_NEVER_HOMED

\* A variant that checks the upper limits only.
test_within_machine_limits_max_only(axis) ==
  IF ~cfg.range_check THEN TRUE
  ELSE \A k \in Axes :
         (move_range_mm[k + 1] <= 0
           \/ ~(axis[k + 1] > move_range_mm[k + 1] * DMM))

test_within_machine_limits(axis) ==
  IF ~cfg.range_check THEN TRUE
  ELSE \A k \in Axes :
         /\ ~(axis[k + 1] < 0)
         /\ (move_range_mm[k + 1] <= 0
              \/ ~(axis[k + 1] > move_range_mm[k + 1] * DMM))

MoveEvent(kind, feed, axis, ok) ==
  [kind |-> kind, accepted |-> ok, feed |-> feed, axis |-> axis,
   size_before |-> BufSize(planning_buffer), homing_before |-> homing_state,
   result |-> 0]

\* An accepted move: r is what machine_move returned
MoveDone(r, ev) ==
  /\ planning_buffer' = r.buf
  /\ Record(r, << >>, ev)
  /\ history' = Moved(planning_buffer, r, ev.axis)

\* coordinated_move(feed, axis)
coordinated_move(feed, axis) ==
  IF ~test_homing_status_ok \/ ~test_within_machine_limits(axis)
    THEN /\ Refused(MoveEvent("coordinated_move", feed, axis, FALSE))
         /\ UNCHANGED <<homing_state, aux_bits, current_feedrate,
                        prog_speed_factor>>
    ELSE /\ current_feedrate' = IF feed > 0 THEN cfg_speed_factor * feed
                                ELSE current_feedrate
         /\ MoveDone(machine_move(planning_buffer,
                                  (prog_speed_factor * current_feedrate') \div MILLI,
                                  axis, aux_bits, axis_to_driver),
                     MoveEvent("coordinated_move", feed, axis, TRUE))
         /\ UNCHANGED <<homing_state, aux_bits, prog_speed_factor>>

\* rapid_move(feed, axis)
rapid_move(feed, axis) ==
  IF ~test_homing_status_ok \/ ~test_within_machine_limits(axis)
    THEN /\ Refused(MoveEvent("rapid_move", feed, axis, FALSE))
         /\ UNCHANGED <<homing_state, aux_bits, current_feedrate,
                        prog_speed_factor>>
    ELSE LET given == (cfg_speed_factor * prog_speed_factor * feed) \div MILLI
         IN /\ MoveDone(machine_move(planning_buffer,
                                     IF given > 0 THEN given ELSE g0_feedrate,
                                     axis, aux_bits, axis_to_driver),
                        MoveEvent("rapid_move", feed, axis, TRUE))
            /\ UNCHANGED <<homing_state, aux_bits, current_feedrate,
                           prog_speed_factor>>

HaltEvent(kind) ==
  [kind |-> kind, accepted |-> TRUE, feed |-> 0, axis |-> <<0, 0, 0, 0>>,
   size_before |-> BufSize(planning_buffer), homing_before |-> homing_state,
   result |-> 0]

\* A halt: r is what bring_path_to_halt returned, b the buffer the event
\* leaves, extra what it enqueued after the halt
HaltDone(r, b, extra, ev) ==
  /\ planning_buffer' = b
  /\ Record(r, extra, ev)
  /\ history' = [Appended(planning_buffer, r) EXCEPT
                   !.homed = @ \/ ev.kind = "go_home",
                   !.probed = @ \/ (ev.kind = "probe_axis" /\ ev.accepted)]

Halted(r, ev) == HaltDone(r, r.buf, << >>, ev)

\* input_idle() and gcode_finished(): bring_path_to_halt()
Halt(kind) ==
  /\ Halted(bring_path_to_halt(planning_buffer, aux_bits, axis_to_driver),
            HaltEvent(kind))
  /\ UNCHANGED <<homing_state, aux_bits, current_feedrate, prog_speed_factor>>

input_idle == Halt("input_idle")
gcode_finished == Halt("gcode_finished")

\* dwell(ms): bring_path_to_halt(), WaitQueueEmpty(), usleep()
dwell == Halt("dwell")

\* motors_enable(b)
motors_enable(b) ==
  /\ Halted(bring_path_to_halt(planning_buffer, aux_bits, axis_to_driver),
            [HaltEvent("motors_enable") EXCEPT !.accepted = b])
  /\ homing_state' = IF homing_state = HOMING_STATE_HOMED
                       THEN HOMING_STATE_HOMED_BUT_MOTORS_UNPOWERED
                       ELSE homing_state
  /\ UNCHANGED <<aux_bits, current_feedrate, prog_speed_factor>>

\* An event that leaves the planner alone
NoPlanning(ev) == Refused(ev)

\* aux_bits_ |= mask and aux_bits_ &= ~mask for a mask of one bit
AUX_BIT_MIST == 1
AUX_BIT_FLOOD == 2
AUX_BIT_VACUUM == 4
AUX_BIT_SPINDLE_ON == 8
AUX_BIT_SPINDLE_DIR == 16
MAX_AUX_PIN == 15
Pin(pin) == 2 ^ pin
OrBit(x, mask) == IF (x \div mask) % 2 = 1 THEN x ELSE x + mask
ClearBit(x, mask) == IF (x \div mask) % 2 = 1 THEN x - mask ELSE x

\* special_commands('M', code, "P<pin> S<s>"): the new aux_bits_.  M3 and
\* M4 (they read spindle_rpm_) are not among the commands explored.
AuxAfter(code, pin, s) ==
  LET aux_bit == IF code = 62 \/ code = 64 THEN 1
                 ELSE IF code = 63 \/ code = 65 THEN 0
                 ELSE IF code = 42 THEN s ELSE -1
  IN CASE code = 5 -> ClearBit(ClearBit(aux_bits, AUX_BIT_SPINDLE_ON),
                               AUX_BIT_SPINDLE_DIR)
       [] code = 7 -> OrBit(aux_bits, AUX_BIT_MIST)
       [] code = 8 -> OrBit(aux_bits, AUX_BIT_FLOOD)
       [] code = 9 -> ClearBit(ClearBit(aux_bits, AUX_BIT_MIST), AUX_BIT_FLOOD)
       [] code = 10 -> OrBit(aux_bits, AUX_BIT_VACUUM)
       [] code = 11 -> ClearBit(aux_bits, AUX_BIT_VACUUM)
       [] code \in {42, 62, 63, 64, 65} ->
            IF pin >= 0 /\ pin <= MAX_AUX_PIN /\ aux_bit >= 0 /\ aux_bit <= 1
              THEN IF aux_bit = 1 THEN OrBit(aux_bits, Pin(pin))
                   ELSE ClearBit(aux_bits, Pin(pin))
              ELSE aux_bits
       [] OTHER -> aux_bits

\* M114, lines 369-396: x, y, z and e are 1.0f * mpos[axis] /
\* cfg_.steps_per_mm[axis] of current = planning_buffer_[0], printed with
\* %.3f (here 1/MILLI mm); the machine cube is printed as it is, the first
\* four numbers less the display origin of the parser
mpos(b) ==
  [i \in 1 .. 4 |->
     RoundDiv(BufPeek(b, 0).position_steps[i - 1] * MILLI
                * Sgn(cfg.steps_per_mm[i]), Abs(cfg.steps_per_mm[i]))]

\* unprocessed('M', code, ...) = special_commands(...); the event of M114
\* records the position it printed ("no current pos" on an empty buffer)
special_commands(code, pin, s) ==
  /\ aux_bits' = AuxAfter(code, pin, s)
  /\ NoPlanning([HaltEvent("special_commands") EXCEPT
                   !.feed = code,
                   !.accepted = (code # 114 \/ BufSize(planning_buffer) > 0),
                   !.axis = IF code = 114 /\ BufSize(planning_buffer) > 0
                              THEN mpos(planning_buffer)
                              ELSE IF code = 114 THEN <<0, 0, 0, 0>>
                              ELSE <<pin, s, 0, 0>>])
  /\ UNCHANGED <<homing_state, current_feedrate, prog_speed_factor>>

\* set_speed_factor(value), value in 1/MILLI: the factor it arrives at
SpeedFactorFor(value) == IF value < 0 THEN MILLI + value ELSE value

\* the floor 0.005
SpeedFactorFloor == (5 * MILLI) \div 1000

set_speed_factor(value) ==
  /\ prog_speed_factor' = IF SpeedFactorFor(value) < SpeedFactorFloor
                            THEN prog_speed_factor
                            ELSE SpeedFactorFor(value)
  /\ NoPlanning([HaltEvent("set_speed_factor") EXCEPT
                   !.feed = value,
                   !.accepted = ~(SpeedFactorFor(value) < SpeedFactorFloor)])
  /\ UNCHANGED <<homing_state, aux_bits, current_feedrate>>

\* ----------------------------------------------------- homing and probing
\* move_to_endstop: the MotorMovements enqueued when the approach loop runs
\* n1 times and the back-off loop n2 times (how often the endstop reads
\* untriggered is up to the machine), and the total movement in steps.
RECURSIVE Repeat(_, _)
Repeat(x, n) == IF n <= 0 THEN << >> ELSE <<x>> \o Repeat(x, n - 1)

\* A MotorMovement of move_to_endstop, with the axis and the loop it is from
EndstopMovement(axis, loop, steps, v0, v1) ==
  MotorMovement("home", steps, v0, v1, 0) @@ [axis |-> axis, loop |-> loop]

move_to_endstop(axis, feedrate, backoff, dir, n1, n2, a2d) ==
  LET plain == feedrate * Spm(axis) * VS
      target_speed == IF plain > max_axis_speed(axis)
                        THEN max_axis_speed(axis) ELSE plain
      approach_steps == TruncDiv(5 * Spm(axis) * dir, 10)
      approach == assign_steps_to_motors(ZeroMotors, a2d, axis, approach_steps)
      backoff_steps == TruncDiv(Spm(axis) * (-dir), 10)
      back == assign_steps_to_motors(approach, a2d, axis, backoff_steps)
      v0_after == IF n1 > 0 THEN target_speed ELSE 0
      nb == IF backoff THEN n2 ELSE 0
  IN [segs |->
        (IF n1 > 0
           THEN << EndstopMovement(axis, "approach", approach, 0, target_speed) >>
                \o Repeat(EndstopMovement(axis, "approach", approach,
                                          target_speed, target_speed), n1 - 1)
           ELSE << >>)
        \o Repeat(EndstopMovement(axis, "backoff", back, v0_after,
                                  target_speed), nb),
      total_movement |-> n1 * approach_steps + nb * backoff_steps]

\* A variant that leaves the position as it is.
home_axis_keeps_position(b, axis) == b

\* home_axis, after move_to_endstop: position_steps[axis] of back()
home_axis(b, axis) ==
  BufSetBack(b, [BufBack(b) EXCEPT !.position_steps[axis] = HomePosSteps(axis)])

\* go_home: the loop over home_order from index i on; b is the buffer,
\* segs the MotorMovements enqueued so far.
RECURSIVE HomeAxes(_, _, _, _, _, _, _)
HomeAxes(b, segs, axes_bitmap, i, n1, n2, a2d) ==
  IF i > Len(home_order) THEN [buf |-> b, segs |-> segs]
  ELSE IF home_order[i] \notin axes_bitmap \/ HomeDir(home_order[i]) = 0
    THEN HomeAxes(b, segs, axes_bitmap, i + 1, n1, n2, a2d)
    ELSE HomeAxes(home_axis(b, home_order[i]),
                  segs \o move_to_endstop(home_order[i], 15, TRUE,
                                          HomeDir(home_order[i]), n1, n2,
                                          a2d).segs,
                  axes_bitmap, i + 1, n1, n2, a2d)

\* go_home, after bring_path_to_halt returned r: h is what the loop did
Homed(r, h, ev) == HaltDone(r, h.buf, h.segs, ev)
HomeAfterHalt(r, axes_bitmap, n1, n2) ==
  Homed(r, HomeAxes(r.buf, << >>, axes_bitmap, 1, n1, n2, axis_to_driver),
        [HaltEvent("go_home") EXCEPT
           !.feed = n1 + n2,
           !.axis = [i \in 1 .. 4 |-> IF (i - 1) \in axes_bitmap THEN 1 ELSE 0]])

\* go_home(axes_bitmap)
go_home(axes_bitmap, n1, n2) ==
  /\ HomeAfterHalt(bring_path_to_halt(planning_buffer, aux_bits, axis_to_driver),
                   axes_bitmap, n1, n2)
  /\ homing_state' = HOMING_STATE_HOMED
  /\ UNCHANGED <<aux_bits, current_feedrate, prog_speed_factor>>

\* probe_axis: the direction of the travel (non-homing) endstop, 0 if the
\* axis has none
ProbeDir(axis) ==
  IF axis \in MinEndstopProbe THEN -1
  ELSE IF axis \in MaxEndstopProbe THEN 1 ELSE 0

\* probe_axis, after bring_path_to_halt returned r: m is what
\* move_to_endstop did (nothing when the axis has no travel endstop)
\* *probe_result = 1.0f * position_steps / steps_per_mm, in 1/MILLI mm
ProbeResult(position_steps, axis) ==
  RoundDiv(position_steps * MILLI * Sgn(cfg.steps_per_mm[axis + 1]),
           Abs(cfg.steps_per_mm[axis + 1]))

Probed(r, m, axis) ==
  HaltDone(r,
           BufSetBack(r.buf, [BufBack(r.buf) EXCEPT
              !.position_steps[axis] = @ + m.total_movement]),
           m.segs,
           [HaltEvent("probe_axis") EXCEPT
              !.accepted = ProbeDir(axis) # 0,
              !.axis = [i \in 1 .. 4 |-> IF i - 1 = axis THEN 1 ELSE 0],
              !.result = IF ProbeDir(axis) # 0
                           THEN ProbeResult(BufBack(r.buf).position_steps[axis]
                                              + m.total_movement, axis)
                           ELSE 0])

ProbeAfterHalt(r, feedrate, axis, n1) ==
  Probed(r,
         IF ProbeDir(axis) # 0
           THEN move_to_endstop(axis, IF feedrate <= 0 THEN 20 ELSE feedrate,
                                FALSE, ProbeDir(axis), n1, 0, axis_to_driver)
           ELSE [segs |-> << >>, total_movement |-> 0],
         axis)

\* probe_axis(feedrate, axis)
probe_axis(feedrate, axis, n1) ==
  IF ~test_homing_status_ok
    THEN /\ Refused([HaltEvent("probe_axis") EXCEPT
                      !.accepted = FALSE,
                      !.axis = [i \in 1 .. 4 |-> IF i - 1 = axis THEN 1 ELSE 0]])
         /\ UNCHANGED <<homing_state, aux_bits, current_feedrate,
                        prog_speed_factor>>
    ELSE /\ ProbeAfterHalt(bring_path_to_halt(planning_buffer, aux_bits,
                                              axis_to_driver),
                           feedrate, axis, n1)
         /\ UNCHANGED <<homing_state, aux_bits, current_feedrate,
                        prog_speed_factor>>

\* --------------------------------------- move_to_endstop, poll by poll
\* The same handlers with one step per get_gpio() of move_to_endstop: the
\* handler is inside a loop until the endstop reads what ends it.

\* go_home: the first index of home_order from i on whose axis home_axis
\* moves, Len(home_order) + 1 if there is none
RECURSIVE NextToHome(_, _)
NextToHome(axes_bitmap, i) ==
  IF i > Len(home_order) THEN i
  ELSE IF home_order[i] \in axes_bitmap /\ HomeDir(home_order[i]) # 0 THEN i
  ELSE NextToHome(axes_bitmap, i + 1)

\* move_to_endstop entered by home_axis for home_order[i]
HomingLoop(axes_bitmap, i) ==
  [NoEndstopLoop EXCEPT !.loop = "approach", !.kind = "go_home",
                        !.axis = home_order[i], !.order = i,
                        !.bitmap = axes_bitmap, !.feedrate = 15]

\* go_home from index i of home_order on: into the next loop, or done
HomeFrom(axes_bitmap, i) ==
  IF i > Len(home_order)
    THEN /\ endstop' = NoEndstopLoop
         /\ homing_state' = HOMING_STATE_HOMED
    ELSE /\ endstop' = HomingLoop(axes_bitmap, i)
         /\ homing_state' = homing_state

\* go_home(axes_bitmap) up to its first get_gpio(): r is what
\* bring_path_to_halt returned
HomingBegun(r, axes_bitmap) ==
  /\ planning_buffer' = r.buf
  /\ Recorded(r, << >>,
              [HaltEvent("go_home") EXCEPT
                 !.axis = [i \in 1 .. 4 |-> IF (i - 1) \in axes_bitmap
                                             THEN 1 ELSE 0]])
  /\ history' = [Appended(planning_buffer, r) EXCEPT
                   !.homed = @ \/ NextToHome(axes_bitmap, 1) > Len(home_order)]
  /\ HomeFrom(axes_bitmap, NextToHome(axes_bitmap, 1))

go_home_begin(axes_bitmap) ==
  /\ endstop.loop = "none"
  /\ HomingBegun(bring_path_to_halt(planning_buffer, aux_bits, axis_to_driver),
                 axes_bitmap)
  /\ UNCHANGED <<aux_bits, current_feedrate, prog_speed_factor>>

\* probe_axis(feedrate, axis) up to its first get_gpio()
ProbingBegun(r, feedrate, axis) ==
  /\ planning_buffer' = r.buf
  /\ Recorded(r, << >>,
              [HaltEvent("probe_axis") EXCEPT
                 !.axis = [i \in 1 .. 4 |-> IF i - 1 = axis THEN 1 ELSE 0]])
  /\ history' = Appended(planning_buffer, r)
  /\ endstop' = [NoEndstopLoop EXCEPT
                   !.loop = "approach", !.kind = "probe_axis", !.axis = axis,
                   !.feedrate = IF feedrate <= 0 THEN 20 ELSE feedrate]

probe_axis_begin(feedrate, axis) ==
  /\ endstop.loop = "none"
  /\ IF ~test_homing_status_ok \/ ProbeDir(axis) = 0
       THEN probe_axis(feedrate, axis, 0)
       ELSE /\ ProbingBegun(bring_path_to_halt(planning_buffer, aux_bits,
                                               axis_to_driver),
                            feedrate, axis)
            /\ UNCHANGED <<homing_state, aux_bits, current_feedrate,
                           prog_speed_factor>>

\* The direction move_to_endstop was given
LoopDir(e) == IF e.kind = "go_home" THEN HomeDir(e.axis) ELSE ProbeDir(e.axis)

\* The MotorMovement the loop e is in enqueues next
LoopMovement(e) ==
  IF e.loop = "approach"
    THEN move_to_endstop(e.axis, e.feedrate, FALSE, LoopDir(e), 2, 0,
                         axis_to_driver).segs[IF e.polls = 0 THEN 1 ELSE 2]
    ELSE move_to_endstop(e.axis, e.feedrate, TRUE, LoopDir(e),
                         Min(e.polls, 1), 1,
                         axis_to_driver).segs[Min(e.polls, 1) + 1]

\* A variant that gives up after MaxPolls iterations.
LoopGoesOnWithTimeout(e, triggered) ==
  /\ IF e.loop = "approach" THEN ~triggered ELSE triggered
  /\ (IF e.loop = "approach" THEN e.polls ELSE e.backoffs) < MaxPolls

\* The conditions of the two while loops
LoopGoesOn(e, triggered) ==
  IF e.loop = "approach" THEN ~triggered ELSE triggered

\* One iteration: Enqueue, WaitQueueEmpty, total_movement += ...  The
\* iterations are counted up to MaxPolls.
Counted(e) == (IF e.loop = "approach" THEN e.polls ELSE e.backoffs) < MaxPolls
LoopIteration(e, seg, triggered) ==
  /\ enqueued' = << seg >>
  /\ motor_ops' = << "Enqueue", "WaitQueueEmpty" >>
  /\ total_steps' = IF Counted(e)
                      THEN [m \in Motors |-> total_steps[m] + seg.steps[m]]
                      ELSE total_steps
  /\ endstop' = [e EXCEPT
                   !.polls = IF e.loop = "approach" /\ Counted(e)
                               THEN @ + 1 ELSE @,
                   !.backoffs = IF e.loop = "backoff" /\ Counted(e)
                                  THEN @ + 1 ELSE @,
                   !.odd = ~@,
                   !.read = triggered]
  /\ UNCHANGED <<planning_buffer, homing_state, event, history>>

\* The approach loop of home_axis is left: on to "if (backoff)"
ApproachLeft(e, triggered) ==
  /\ endstop' = [e EXCEPT !.loop = "backoff", !.odd = FALSE,
                          !.read = triggered]
  /\ enqueued' = << >>
  /\ motor_ops' = << >>
  /\ UNCHANGED <<planning_buffer, homing_state, event, history, total_steps>>

\* move_to_endstop returns to home_axis, and that to the loop of go_home
AxisHomed(e, triggered) ==
  /\ planning_buffer' = home_axis(planning_buffer, e.axis)
  /\ IF NextToHome(e.bitmap, e.order + 1) > Len(home_order)
       THEN /\ endstop' = [NoEndstopLoop EXCEPT !.read = triggered]
            /\ homing_state' = HOMING_STATE_HOMED
       ELSE /\ endstop' = [HomingLoop(e.bitmap, NextToHome(e.bitmap, e.order + 1))
                             EXCEPT !.read = triggered]
            /\ homing_state' = homing_state
  /\ history' = [history EXCEPT
                   !.homed = @ \/ NextToHome(e.bitmap, e.order + 1)
                                    > Len(home_order)]
  /\ enqueued' = << >>
  /\ motor_ops' = << >>
  /\ UNCHANGED <<event, total_steps>>

\* move_to_endstop returns total to probe_axis
ProbeDone(e, total, triggered) ==
  /\ planning_buffer' =
       BufSetBack(planning_buffer, [BufBack(planning_buffer) EXCEPT
                                      !.position_steps[e.axis] = @ + total])
  /\ event' = [event EXCEPT
                 !.result = ProbeResult(BufBack(planning_buffer)
                                          .position_steps[e.axis] + total,
                                        e.axis)]
  /\ endstop' = [NoEndstopLoop EXCEPT !.read = triggered]
  /\ history' = [history EXCEPT !.probed = TRUE]
  /\ enqueued' = << >>
  /\ motor_ops' = << >>
  /\ UNCHANGED <<homing_state, total_steps>>

\* One get_gpio() of move_to_endstop and what follows it up to the next
\* one; triggered: it read trigger_value
poll_endstop(triggered) ==
  /\ endstop.loop # "none"
  /\ IF LoopGoesOn(endstop, triggered)
       THEN LoopIteration(endstop, LoopMovement(endstop), triggered)
       ELSE IF endstop.loop = "backoff" THEN AxisHomed(endstop, triggered)
       ELSE IF endstop.kind = "go_home" THEN ApproachLeft(endstop, triggered)
       ELSE ProbeDone(endstop,
                      move_to_endstop(endstop.axis, endstop.feedrate, FALSE,
                                      LoopDir(endstop), endstop.polls, 0,
                                      axis_to_driver).total_movement,
                      triggered)
  /\ UNCHANGED <<call, prev_call, nevents, aux_bits, current_feedrate,
                 prog_speed_factor>>

\* ----------------------------------------------------------- specification
\* A run takes at most n parser events on a machine Create returned;
\* Create's results stay as they are.
Within(n) == created /\ nevents < n /\ UNCHANGED config_vars

\* The motion events: moves, halts, homing and probing
Next ==
  \/ \E f \in AllFeeds, t \in AllTargets :
       Within(MaxAllEvents) /\ coordinated_move(f, t)
  \/ \E f \in RapidFeeds, t \in AllTargets :
       Within(MaxAllEvents) /\ rapid_move(f, t)
  \/ Within(MaxAllEvents) /\ input_idle
  \/ Within(MaxAllEvents) /\ gcode_finished
  \/ Within(MaxAllEvents) /\ dwell
  \/ \E b \in BOOLEAN : Within(MaxAllEvents) /\ motors_enable(b)
  \/ \E bm \in HomeBitmaps, n1 \in 0 .. MaxHomeSegs, n2 \in 0 .. MaxHomeSegs :
       Within(MaxAllEvents) /\ go_home(bm, n1, n2)
  \/ \E k \in ProbeAxes, n1 \in 0 .. MaxHomeSegs :
       Within(MaxAllEvents) /\ probe_axis(0, k, n1)

Spec == Init /\ [][Next]_vars

\* The planner alone: moves and halts, over more targets and feeds
NextPlan ==
  \/ \E f \in Feeds, t \in Targets :
       Within(MaxEvents) /\ coordinated_move(f, t)
  \/ \E f \in RapidFeeds, t \in RapidTargets :
       Within(MaxEvents) /\ rapid_move(f, t)
  \/ Within(MaxEvents) /\ input_idle
  \/ Within(MaxEvents) /\ gcode_finished

SpecPlan == Init /\ [][NextPlan]_vars

\* Moves, halts, M-codes and M220, also in synchronous mode
NextAux ==
  \/ \E f \in AuxFeeds, t \in AuxTargets :
       Within(MaxAuxEvents) /\ coordinated_move(f, t)
  \/ \E f \in RapidFeeds, t \in AuxTargets :
       Within(MaxAuxEvents) /\ rapid_move(f, t)
  \/ Within(MaxAuxEvents) /\ input_idle
  \/ Within(MaxAuxEvents) /\ dwell
  \/ \E c \in AuxCommands :
       Within(MaxAuxEvents) /\ special_commands(c[1], c[2], c[3])
  \/ \E v \in SpeedFactors : Within(MaxAuxEvents) /\ set_speed_factor(v)

SpecAux == InitAux /\ [][NextAux]_vars

\* Moves and halts, also of the machines without acceleration on Y and
\* with speed_factor 0
NextAccel ==
  \/ \E f \in AccelFeeds, t \in AccelTargets :
       Within(MaxAccelEvents) /\ coordinated_move(f, t)
  \/ Within(MaxAccelEvents) /\ input_idle

SpecAccel == InitAccel /\ [][NextAccel]_vars

\* Homing of several axes, before and after a move or an M-code
NextHome ==
  \/ \E f \in AllFeeds, t \in AllTargets :
       Within(MaxHomeEvents) /\ coordinated_move(f, t)
  \/ \E c \in AuxCommands :
       Within(MaxHomeEvents) /\ special_commands(c[1], c[2], c[3])
  \/ Within(MaxHomeEvents) /\ special_commands(114, -1, -1)
  \/ \E bm \in HomingBitmaps, n1 \in 0 .. MaxHomeSegs, n2 \in 0 .. MaxHomeSegs :
       Within(MaxHomeEvents) /\ go_home(bm, n1, n2)
  \/ \E k \in ProbeAxes, n1 \in 0 .. MaxHomeSegs :
       Within(MaxHomeEvents) /\ probe_axis(0, k, n1)

SpecHome == Init /\ [][NextHome]_vars

\* Homing and probing poll by poll.  A handler that is inside
\* move_to_endstop has not returned: the parser delivers no event, and the
\* loop goes on running.
Polling == created /\ UNCHANGED config_vars /\ \E t \in BOOLEAN : poll_endstop(t)

NextEndstop ==
  \/ \E f \in AllFeeds, t \in AllTargets :
       /\ endstop.loop = "none"
       /\ Within(MaxEndstopEvents) /\ coordinated_move(f, t)
  \/ \E bm \in HomingBitmaps : Within(MaxEndstopEvents) /\ go_home_begin(bm)
  \/ \E k \in ProbeAxes : Within(MaxEndstopEvents) /\ probe_axis_begin(0, k)
  \/ Polling

SpecEndstop == Init /\ [][NextEndstop]_vars /\ WF_vars(Polling)

\* Moves and halts once around the ring buffer and further, on zeroed
\* memory; every move goes to another position than the last.
RingTargets == { <<100, 0, 0, 30>>, <<0, 100, 0, 30>>, <<100, 100, 0, 30>> }

InitRing ==
  \E c \in Configs, mem \in MemoryImages :
    /\ ~c.require_homing /\ mem.aux_bits = 0 /\ mem.angle = 0
    /\ Create(c, mem)

NextRing ==
  \/ \E t \in RingTargets :
       /\ \E k \in Axes : round2int_mm(t[k + 1], k)
                             # BufBack(planning_buffer).position_steps[k]
       /\ Within(MaxRingEvents) /\ coordinated_move(5 * MILLI, t)
  \/ Within(MaxRingEvents) /\ input_idle

SpecRing == InitRing /\ [][NextRing]_vars

\* ================================================================ claims
\* A call of the Segmenter on a target that has motion
HasMotion(c) == c.called /\ ~c.skipped

\* The drivers no axis is mapped to
UnmappedMotors == {m \in Motors : \A k \in Axes : m \notin axis_to_driver[k]}

\* C1 - Step conservation: for every target with motion that
\* move_machine_steps processes and every motor m of axis_to_driver[k], the
\* steps[m] of the MotorMovements enqueued for that target add up to
\* axis_flip[k] * driver_flip[m] * delta_steps[k]; motors mapped to no axis
\* total zero.
C1_StepConservation ==
  HasMotion(call) =>
    /\ \A k \in Axes : \A m \in axis_to_driver[k] :
          SumSteps(call.segs, m)
            = axis_flip(k) * driver_flip(m) * call.target.delta_steps[k]
    /\ \A m \in UnmappedMotors : SumSteps(call.segs, m) = 0

\* The same on a machine whose axis_to_driver_ holds the configured
\* mapping and nothing else.
CleanMapping == \A k \in Axes : axis_to_driver[k] = MappedDrivers(k)
C1_StepConservationCleanMapping == CleanMapping => C1_StepConservation

\* ----- helpers of the claims
HaltKinds == {"input_idle", "gcode_finished"}
MoveKinds == {"coordinated_move", "rapid_move"}
MoveAccepted == event.kind \in MoveKinds /\ event.accepted
LastSeg(segs) == segs[Len(segs)]
TargetMoves(t) == t.delta_steps[t.defining_axis] # 0
RoundedTarget(axis) == [k \in Axes |-> round2int_mm(axis[k + 1], k)]

\* C2 - Absolute-position integrity: after accepted moves (no homing, no
\* probing) and a halt event, for every axis k the steps enqueued for the
\* motors of axis k (flips undone) add up to back().position_steps[k] minus
\* the boot position, and back().position_steps[k] is the rounded last
\* target.
C2_PositionIntegrity ==
  (event.kind \in HaltKinds /\ ~history.homed /\ ~history.probed) =>
    \A k \in Axes :
      /\ \A m \in axis_to_driver[k] :
            axis_flip(k) * driver_flip(m) * total_steps[m]
              = BufBack(planning_buffer).position_steps[k] - BootPosition[k]
      /\ history.moves > 0 =>
            BufBack(planning_buffer).position_steps[k]
              = round2int_mm(history.last_axis[k + 1], k)

\* The same on a machine whose axis_to_driver_ holds the configured mapping.
C2_PositionIntegrityCleanMapping == CleanMapping => C2_PositionIntegrity

\* C3 - No accumulation: the first move from the boot pose creates a target
\* with a nonzero delta; every further accepted move to the same target
\* creates a target whose delta_steps are all zero and whose position is
\* the same rounded target; the Segmenter enqueues nothing for a target
\* whose delta_steps are all zero.
C3_NoAccumulation ==
  /\ (MoveAccepted /\ history.moves = 1) =>
        /\ TargetMoves(BufBack(planning_buffer))
        /\ BufBack(planning_buffer).delta_steps
             = [k \in Axes |-> RoundedTarget(event.axis)[k] - BootPosition[k]]
  /\ (MoveAccepted /\ history.streak >= 2) =>
        /\ BufBack(planning_buffer).delta_steps = ZeroAxes
        /\ BufBack(planning_buffer).position_steps = RoundedTarget(event.axis)
  /\ (call.called /\ call.target.delta_steps = ZeroAxes) =>
        call.segs = << >> /\ call.skipped

\* Three coordinated moves to one target; the Segmenter has just been
\* called on the second of them.
C3_Witness ==
  /\ event.kind = "coordinated_move" /\ event.accepted
  /\ history.streak = 3 /\ history.moves = 3
  /\ call.called /\ call.target.delta_steps = ZeroAxes
  /\ TargetMoves(prev_call.target)
  /\ enqueued = << >>

\* C4 - Axis-ceiling obedience: for every enqueued segment of a target and
\* every axis k that moves in that target, the speed of axis k,
\* v1 * |delta_steps[k]| / |delta_steps[defining_axis]|, is at most
\* max_axis_speed[k].
C4_AxisCeiling ==
  HasMotion(call) =>
    \A i \in 1 .. Len(call.segs) : \A k \in Axes :
      call.target.delta_steps[k] # 0 =>
        call.segs[i].v1 * Abs(call.target.delta_steps[k])
          <= max_axis_speed(k)
               * Abs(call.target.delta_steps[call.target.defining_axis])

\* C5 - Halt sentinel decelerates: when a move with motion is followed by
\* input_idle or gcode_finished, the last MotorMovement enqueued for the
\* move is a deceleration with v1 = 0.
C5_HaltDecelerates ==
  (event.kind \in HaltKinds /\ HasMotion(call)) =>
    /\ call.segs # << >>
    /\ LastSeg(call.segs).kind = "decel"
    /\ LastSeg(call.segs).v1 = 0

\* Two targets in the XY plane whose headings differ by more than the
\* threshold and with an axis that moves in only one of them
PlanarMove(t) ==
  /\ TargetMoves(t)
  /\ t.delta_steps[AXIS_Z] = 0 /\ t.delta_steps[AXIS_E] = 0
SharpCorner(t, u) ==
  /\ PlanarMove(t) /\ PlanarMove(u)
  /\ Abs(t.angle - u.angle) > threshold_angle
  /\ \E k \in Axes : (t.delta_steps[k] = 0) # (u.delta_steps[k] = 0)

\* C6 - Sharp corner stops: at a sharp corner between two consecutive moves
\* the junction speed of the first is 0, the last segment of the first has
\* v1 = 0 and the first segment of the second has v0 = 0.
C6_SharpCornerStops ==
  /\ (HasMotion(call) /\ SharpCorner(call.target, call.upcoming)) =>
        /\ call.next_speed = 0
        /\ call.segs # << >> /\ LastSeg(call.segs).v1 = 0
  /\ (HasMotion(call) /\ call.segs # << >>
        /\ SharpCorner(call.last, call.target)) =>
        Head(call.segs).v0 = 0

\* C7 - Turnaround zero: when some axis has delta_steps of opposite sign in
\* a target and in the one that follows it, the junction speed the
\* Segmenter gets from determine_joining_speed for the first is 0.
Turnaround(t, u) ==
  \E k \in Axes : t.delta_steps[k] * u.delta_steps[k] < 0
C7_TurnaroundZero ==
  (HasMotion(call) /\ Turnaround(call.target, call.upcoming)) =>
    call.next_speed = 0

\* Two targets with motion in the same direction: delta_steps parallel,
\* no axis reversed
Collinear(t, u) ==
  /\ TargetMoves(t) /\ TargetMoves(u)
  /\ \A i \in Axes : t.delta_steps[i] * u.delta_steps[i] >= 0
  /\ \A i \in Axes : \A j \in Axes :
        t.delta_steps[i] * u.delta_steps[j] = t.delta_steps[j] * u.delta_steps[i]

NoDecel(c) == \A i \in 1 .. Len(c.segs) : c.segs[i].kind # "decel"

PlusX(t) ==
  /\ t.delta_steps[AXIS_X] > 0
  /\ \A k \in Axes \ {AXIS_X} : t.delta_steps[k] = 0

\* The Segmenter has been called on the middle one of three equal +X moves
\* planned at the same speed (prev_call was the call on the first of them).
MiddleOfThree ==
  /\ HasMotion(call) /\ HasMotion(prev_call)
  /\ prev_call.out = call.last /\ prev_call.upcoming = call.target
  /\ PlusX(call.target)
  /\ call.last.delta_steps = call.target.delta_steps
  /\ call.upcoming.delta_steps = call.target.delta_steps
  /\ prev_call.target.speed = call.target.speed
  /\ call.upcoming.speed = call.target.speed

OneCruise(c) ==
  /\ Len(c.segs) = 1
  /\ c.segs[1].kind = "move"
  /\ c.segs[1].v0 = c.segs[1].v1

C9_BufferWindow ==
  /\ BufSize(planning_buffer) <= RingSize
  /\ history.append_ok
  /\ call.called =>
        /\ event.size_before + 1 = 3
        /\ BufSize(planning_buffer) = 2
        /\ BufPeek(planning_buffer, 0) = call.out
        /\ BufPeek(planning_buffer, 1).delta_steps = call.upcoming.delta_steps
        /\ BufPeek(planning_buffer, 1).speed = call.upcoming.speed
  /\ (~call.called /\ event.kind # "create") =>
        \/ BufSize(planning_buffer) = event.size_before
        \/ /\ BufSize(planning_buffer) = event.size_before + 1
           /\ BufSize(planning_buffer) < 3

\* A move was pending when probing began: the Segmenter ran on it and the
\* buffer is back to two targets.
C9_Witness ==
  /\ event.kind = "probe_axis" /\ event.accepted
  /\ HasMotion(call) /\ nevents = MaxAllEvents
  /\ BufSize(planning_buffer) = 2

\* C10 - Unhomed refusal: a move to a target in range is refused exactly
\* when require_homing is configured and the homing state is NEVER_HOMED;
\* a refused move leaves the planning buffer and the remembered feedrate
\* unchanged and enqueues nothing.
InRange(axis) == test_within_machine_limits(axis)

C10_RefusedExactly ==
  (event.kind \in MoveKinds /\ InRange(event.axis)) =>
    (~event.accepted <=>
       (cfg.require_homing /\ event.homing_before = HOMING_STATE_NEVER_HOMED))

C10_RefusalChangesNothing ==
  (event'.kind \in MoveKinds /\ ~event'.accepted) =>
    /\ planning_buffer' = planning_buffer
    /\ current_feedrate' = current_feedrate
    /\ total_steps' = total_steps
    /\ enqueued' = << >>

C10_UnhomedRefusal ==
  [] C10_RefusedExactly /\ [][C10_RefusalChangesNothing]_vars

\* A move refused on a machine that was never homed.
C10_Witness ==
  /\ event.kind \in MoveKinds /\ ~event.accepted
  /\ cfg.require_homing /\ event.homing_before = HOMING_STATE_NEVER_HOMED
  /\ nevents = MaxAllEvents

\* C11 - Range check never partially commits: a move that passes the homing
\* test is refused exactly when range_check is configured and some axis k
\* has target[k] < 0 or (move_range_mm[k] > 0 and target[k] >
\* move_range_mm[k]); with range_check off such a move is never refused; a
\* refused move leaves the planning buffer, the remembered feedrate, the
\* aux mask and the motor queue as they were.
OutOfRange(axis) ==
  \E k \in Axes :
    \/ axis[k + 1] < 0
    \/ (move_range_mm[k + 1] > 0 /\ axis[k + 1] > move_range_mm[k + 1] * DMM)

PassedHomingTest ==
  ~(cfg.require_homing /\ event.homing_before = HOMING_STATE_NEVER_HOMED)

C11_RefusedForRange ==
  (event.kind \in MoveKinds /\ PassedHomingTest) =>
    /\ cfg.range_check => (~event.accepted <=> OutOfRange(event.axis))
    /\ ~cfg.range_check => event.accepted

C11_RefusalCommitsNothing ==
  (event'.kind \in MoveKinds /\ ~event'.accepted) =>
    /\ planning_buffer' = planning_buffer
    /\ current_feedrate' = current_feedrate
    /\ aux_bits' = aux_bits
    /\ total_steps' = total_steps
    /\ enqueued' = << >>
    /\ motor_ops' = << >>

C11_RangeCheck ==
  [] C11_RefusedForRange /\ [][C11_RefusalCommitsNothing]_vars

\* A move below zero refused by the range check while another move waits
\* in the planning buffer.
C11_Witness ==
  /\ event.kind \in MoveKinds /\ ~event.accepted
  /\ cfg.range_check /\ ~cfg.require_homing
  /\ event.axis[AXIS_X + 1] < 0
  /\ history.moves = 1 /\ BufSize(planning_buffer) = 2
  /\ aux_bits # 0

\* C12 - Homing state machine: the state starts as NEVER_HOMED; go_home
\* makes it HOMED; motors_enable(false) turns HOMED into
\* HOMED_BUT_MOTORS_UNPOWERED and leaves the other states; motors_enable(true)
\* leaves the state unchanged; no other event changes it; NEVER_HOMED is
\* never re-entered.  (The argument of motors_enable is event.accepted.)
C12_StartsNeverHomed ==
  event.kind = "create" => homing_state = HOMING_STATE_NEVER_HOMED

C12_Transitions ==
  /\ event'.kind = "go_home" => homing_state' = HOMING_STATE_HOMED
  /\ (event'.kind = "motors_enable" /\ ~event'.accepted) =>
        homing_state' = IF homing_state = HOMING_STATE_HOMED
                          THEN HOMING_STATE_HOMED_BUT_MOTORS_UNPOWERED
                          ELSE homing_state
  /\ (event'.kind = "motors_enable" /\ event'.accepted) =>
        homing_state' = homing_state
  /\ event'.kind \notin {"go_home", "motors_enable"} =>
        homing_state' = homing_state
  /\ homing_state # HOMING_STATE_NEVER_HOMED =>
        homing_state' # HOMING_STATE_NEVER_HOMED

C12_HomingStateMachine ==
  [] C12_StartsNeverHomed /\ [][C12_Transitions]_vars

\* The transitions alone, from the first go_home on
C12_TransitionsFromNeverHomed ==
  [][history.homed => C12_Transitions]_vars

\* C13 - Emission order: the Segmenter enqueues at most three
\* MotorMovements for a target, in the order accel, cruise, decel; an event
\* enqueues them before anything else it enqueues; the target an event
\* hands to the Segmenter is the one that was newest before the event (each
\* event appends one target), with the one before it as last position, so
\* targets are segmented one after the other in the order they were
\* accepted.
SegRank(kind) ==
  CASE kind = "accel" -> 1 [] kind = "move" -> 2 [] kind = "decel" -> 3
    [] OTHER -> 4

C13_SegmentOrder ==
  /\ Len(call.segs) <= 3
  /\ \A i \in 1 .. Len(call.segs) : SegRank(call.segs[i].kind) <= 3
  /\ \A i \in 1 .. Len(call.segs) : \A j \in 1 .. Len(call.segs) :
        i < j => SegRank(call.segs[i].kind) < SegRank(call.segs[j].kind)
  /\ Len(enqueued) >= Len(call.segs)
  /\ SubSeq(enqueued, 1, Len(call.segs)) = call.segs
  /\ \A i \in (Len(call.segs) + 1) .. Len(enqueued) : enqueued[i].kind = "home"

OldestSlot(b) == b.ring_buffer[b.read_pos]
SecondSlot(b) == b.ring_buffer[(b.read_pos + 1) % RingSize]

C13_TargetsInOrder ==
  /\ call'.called =>
        /\ BufSize(planning_buffer) = 2
        /\ call'.last = OldestSlot(planning_buffer)
        /\ call'.target = SecondSlot(planning_buffer)
        /\ call'.target = BufBack(planning_buffer)
        /\ OldestSlot(planning_buffer') = call'.out
        /\ call'.out.delta_steps = call'.target.delta_steps
        /\ call'.upcoming.delta_steps = BufBack(planning_buffer').delta_steps
  /\ (event'.kind \in MoveKinds /\ event'.accepted) =>
        /\ BufBack(planning_buffer').position_steps = RoundedTarget(event'.axis)
        /\ call'.called => call'.upcoming = BufBack(planning_buffer')
  /\ ~call'.called =>
        \A i \in 1 .. Len(enqueued') : enqueued'[i].kind = "home"

C13_EmissionOrder ==
  [] C13_SegmentOrder /\ [][C13_TargetsInOrder]_vars

\* A move that got all three segments, segmented right after another move
\* with motion.
C13_Witness ==
  /\ Len(call.segs) = 3
  /\ HasMotion(prev_call)
  /\ prev_call.out = call.last
  /\ prev_call.upcoming = call.target
  /\ history.moves = 2

\* C14 - Aux bits travel with motion: a target appended by an accepted
\* move or by a halt holds the aux mask of that moment; M-codes change the
\* mask but neither the buffered targets nor the motor queue; every
\* MotorMovement the Segmenter enqueues carries the aux_bits of its target,
\* which is the target as it was buffered, whatever the mask is by then.
AppendingKinds ==
  MoveKinds \cup {"input_idle", "gcode_finished", "dwell", "motors_enable",
                  "go_home", "probe_axis"}

C14_SegmentsCarryTargetAux ==
  \A i \in 1 .. Len(call.segs) : call.segs[i].aux_bits = call.target.aux_bits

C14_MaskLatchedAtAcceptance ==
  /\ (event'.kind \in AppendingKinds /\ event'.accepted) =>
        /\ aux_bits' = aux_bits
        /\ BufBack(planning_buffer').aux_bits = aux_bits
  /\ event'.kind = "special_commands" =>
        /\ planning_buffer' = planning_buffer
        /\ enqueued' = << >>
        /\ total_steps' = total_steps
  /\ call'.called =>
        /\ call'.target = BufBack(planning_buffer)
        /\ \A i \in 1 .. Len(call'.segs) :
              call'.segs[i].aux_bits = BufBack(planning_buffer).aux_bits

C14_AuxBitsTravel ==
  [] C14_SegmentsCarryTargetAux /\ [][C14_MaskLatchedAtAcceptance]_vars

\* Move i, an M-code, move i+1: move i is segmented now, after the mask
\* changed, and its segments carry the mask from before the change.
C14_Witness ==
  /\ event.kind \in MoveKinds /\ event.accepted
  /\ HasMotion(call) /\ call.segs # << >>
  /\ history.moves = 2 /\ nevents = 3
  /\ call.target.aux_bits # aux_bits
  /\ call.upcoming.aux_bits = aux_bits
  /\ call.segs[1].aux_bits # aux_bits

\* C15 - Synchronous mode: when synchronous is configured, every Enqueue
\* the Segmenter performs comes right after a WaitQueueEmpty, so that the
\* motor queue is empty when each accel, cruise and decel segment is
\* enqueued; when synchronous is off the Segmenter never calls
\* WaitQueueEmpty.
C15_Synchronous ==
  /\ cfg.synchronous =>
        \A i \in 1 .. Len(call.ops) :
          call.ops[i] = "Enqueue" =>
            (i > 1 /\ call.ops[i - 1] = "WaitQueueEmpty")
  /\ ~cfg.synchronous =>
        \A i \in 1 .. Len(call.ops) : call.ops[i] # "WaitQueueEmpty"

\* What the code does: one WaitQueueEmpty per target with motion, before
\* the first Enqueue.
C15_DrainsOncePerTarget ==
  HasMotion(call) =>
    call.ops = SegmenterOps(cfg.synchronous, Len(call.segs))

\* The steps of axis k in a segment of the call c: round(fraction * delta)
\* in a ramp, the rest in the cruise
RampAxisSteps(c, num, k) ==
  IF c.do_accel /\ num > 0
    THEN RoundDiv(num * c.target.delta_steps[k], c.Q) ELSE 0

SegAxisSteps(c, kind, k) ==
  CASE kind = "accel" -> RampAxisSteps(c, c.acc_num, k)
    [] kind = "decel" -> RampAxisSteps(c, c.dec_num, k)
    [] OTHER -> c.target.delta_steps[k] - RampAxisSteps(c, c.acc_num, k)
                  - RampAxisSteps(c, c.dec_num, k)

\* C16 - Motor fan-out and mirroring: in every MotorMovement the Segmenter
\* enqueues, each motor m of axis_to_driver[k] gets
\* axis_flip[k] * driver_flip[m] * s, s being the steps of axis k in that
\* segment; a motor of no axis gets 0; no motor belongs to two axes.
C16_MotorFanOut ==
  /\ HasMotion(call) =>
        \A i \in 1 .. Len(call.segs) :
          /\ \A k \in Axes : \A m \in axis_to_driver[k] :
                call.segs[i].steps[m]
                  = axis_flip(k) * driver_flip(m)
                      * SegAxisSteps(call, call.segs[i].kind, k)
          /\ \A m \in UnmappedMotors : call.segs[i].steps[m] = 0
  /\ \A m \in Motors : \A j \in Axes : \A k \in Axes :
        (m \in axis_to_driver[j] /\ m \in axis_to_driver[k]) => j = k

\* The same on a machine whose axis_to_driver_ holds the configured mapping.
C16_MotorFanOutCleanMapping == CleanMapping => C16_MotorFanOut

\* C17 - Defining-axis dominance: in the target an accepted move appends,
\* no axis has more steps (in absolute value) than the defining axis, and
\* every axis with a lower index has fewer.
C17_DefiningAxisDominance ==
  MoveAccepted =>
    /\ \A k \in Axes :
          Abs(BufBack(planning_buffer).delta_steps[
                BufBack(planning_buffer).defining_axis])
            >= Abs(BufBack(planning_buffer).delta_steps[k])
    /\ \A k \in Axes :
          k < BufBack(planning_buffer).defining_axis =>
            Abs(BufBack(planning_buffer).delta_steps[k])
              < Abs(BufBack(planning_buffer).delta_steps[
                      BufBack(planning_buffer).defining_axis])

\* An X/Y diagonal with as many steps on Y as on X: the defining axis is X.
C17_Witness ==
  /\ MoveAccepted
  /\ BufBack(planning_buffer).delta_steps[AXIS_X] # 0
  /\ Abs(BufBack(planning_buffer).delta_steps[AXIS_X])
       = Abs(BufBack(planning_buffer).delta_steps[AXIS_Y])
  /\ BufBack(planning_buffer).defining_axis = AXIS_X

\* C18 - All accepted moves are flushed by a halt: input_idle,
\* gcode_finished, dwell, motors_enable and go_home hand the target that was
\* newest before them to the Segmenter, whose segments are the first thing
\* they enqueue (so go_home enqueues them before its homing segments), and
\* leave as newest target one with all deltas zero and speed 0, behind a
\* target that has been segmented; the last call dwell makes on the motor
\* queue is WaitQueueEmpty.  After an accepted move the target of that move
\* is the newest in the buffer, it has not been handed to the Segmenter and
\* (with the configured mapping, no homing or probing) the steps enqueued
\* so far end at the position before it.
HaltingKinds ==
  {"input_idle", "gcode_finished", "dwell", "motors_enable", "go_home"}

C18_HaltFlushes ==
  event'.kind \in HaltingKinds =>
    /\ BufBack(planning_buffer').delta_steps = ZeroAxes
    /\ BufBack(planning_buffer').speed = 0
    /\ BufSize(planning_buffer') = 2
    /\ BufSize(planning_buffer) = 2 =>
          /\ call'.called
          /\ call'.target = BufBack(planning_buffer)
          /\ OldestSlot(planning_buffer') = call'.out
          /\ TargetMoves(BufBack(planning_buffer)) => call'.segs # << >>
          /\ Len(enqueued') >= Len(call'.segs)
          /\ SubSeq(enqueued', 1, Len(call'.segs)) = call'.segs
    /\ BufSize(planning_buffer) = 1 =>
          OldestSlot(planning_buffer') = OldestSlot(planning_buffer)
    /\ event'.kind = "dwell" =>
          motor_ops' = call'.ops \o << "WaitQueueEmpty" >>
    /\ event'.kind = "go_home" =>
          \A i \in (Len(call'.segs) + 1) .. Len(enqueued') :
            enqueued'[i].kind = "home"

C18_NewestMovePending ==
  MoveAccepted =>
    /\ BufSize(planning_buffer) = 2
    /\ BufBack(planning_buffer).position_steps = RoundedTarget(event.axis)
    /\ enqueued = call.segs
    /\ call.called =>
          /\ call.upcoming = BufBack(planning_buffer)
          /\ call.out = OldestSlot(planning_buffer)
    /\ (CleanMapping /\ ~history.homed /\ ~history.probed) =>
          \A k \in Axes : \A m \in axis_to_driver[k] :
            axis_flip(k) * driver_flip(m) * total_steps[m]
              = OldestSlot(planning_buffer).position_steps[k] - BootPosition[k]

C18_HaltFlush ==
  [] C18_NewestMovePending /\ [][C18_HaltFlushes]_vars

\* go_home with a move pending: the segments of the move, then the homing
\* segments.
C18_Witness ==
  /\ event.kind = "go_home"
  /\ HasMotion(call) /\ call.segs # << >>
  /\ Len(enqueued) > Len(call.segs)
  /\ history.moves = 1
  /\ BufBack(planning_buffer).delta_steps = ZeroAxes

\* The speed of the target an accepted move appended, had machine_move
\* been given prog_speed_factor times the feedrate base (1/MILLI mm/s)
ScaledSpeed(t, factor, base) ==
  IF TargetMoves(t)
    THEN TravelSpeed((factor * base) \div MILLI, t.delta_steps, t.defining_axis)
    ELSE 0

\* The feedrate of a move before the program speed factor: the remembered
\* feedrate of a coordinated move, the given or else the G0 feedrate of a
\* rapid move
FeedrateBase(ev, remembered) ==
  IF ev.kind = "coordinated_move" THEN remembered
  ELSE IF ev.feed > 0 THEN cfg_speed_factor * ev.feed ELSE g0_feedrate

C19_FactorAtLeastFloor == 1000 * prog_speed_factor >= 5 * MILLI

C19_SetSpeedFactor ==
  /\ event'.kind = "set_speed_factor" =>
        LET f == IF event'.feed < 0 THEN MILLI + event'.feed ELSE event'.feed
        IN IF 1000 * f < 5 * MILLI
             THEN prog_speed_factor' = prog_speed_factor /\ ~event'.accepted
             ELSE prog_speed_factor' = f /\ event'.accepted
  /\ event'.kind # "set_speed_factor" => prog_speed_factor' = prog_speed_factor

C19_FactorScalesMove ==
  (event'.kind \in MoveKinds /\ event'.accepted) =>
    BufBack(planning_buffer').speed
      = ScaledSpeed(BufBack(planning_buffer'), prog_speed_factor,
                    FeedrateBase(event', current_feedrate'))

\* C19 - Program speed factor: set_speed_factor(f) takes a negative f as
\* 1+f; a result below 0.005 is rejected and prog_speed_factor stays,
\* otherwise prog_speed_factor becomes the result; no other event changes
\* it; it is at least 0.005 in every state; the feedrate of every accepted
\* move is multiplied with it.
C19_ProgramSpeedFactor ==
  /\ [] C19_FactorAtLeastFloor
  /\ [][C19_SetSpeedFactor /\ C19_FactorScalesMove]_vars

\* All of it but the rapid moves without a feed of their own
C19_ExceptRapidDefault ==
  /\ [] C19_FactorAtLeastFloor
  /\ [][C19_SetSpeedFactor
         /\ (~(event'.kind = "rapid_move" /\ event'.feed <= 0)
               => C19_FactorScalesMove)]_vars

\* C20 - Signed steps_per_mm: with a negative steps_per_mm on an axis that
\* has a driver, Create returns a machine; axis_flip of that axis is -1 and
\* the machine computes with the magnitude, so that the motors of the axis
\* get the negated steps of the target.
ReversedAxes ==
  {k \in Axes : cfg.steps_per_mm[k + 1] < 0 /\ MappedDrivers(k) # {}}

C20_SignedStepsPerMM ==
  ReversedAxes # {} =>
    /\ created
    /\ \A k \in ReversedAxes :
          /\ axis_flip(k) = -1
          /\ Spm(k) = -cfg.steps_per_mm[k + 1]
          /\ HasMotion(call) =>
                \A m \in MappedDrivers(k) :
                  SumSteps(call.segs, m)
                    = -driver_flip(m) * call.target.delta_steps[k]

\* The feedrate the last accepted move handed to machine_move
\* (1/MILLI mm/s), and feed * steps_per_mm[defining] (1/VS steps/s)
MoveFeedrate ==
  IF event.kind = "coordinated_move"
    THEN (prog_speed_factor * current_feedrate) \div MILLI
    ELSE IF (cfg_speed_factor * prog_speed_factor * event.feed) \div MILLI > 0
      THEN (cfg_speed_factor * prog_speed_factor * event.feed) \div MILLI
      ELSE g0_feedrate

AxisFrequency(t) == (MoveFeedrate * Spm(t.defining_axis) * VS) \div MILLI

\* Lengths in mm times the steps/mm common to X, Y and Z: l of the defining
\* axis and ten times the Euclidean length L, rounded down
CartesianSpm == Spm(AXIS_X)
EqualCartesianSpm == Spm(AXIS_Y) = CartesianSpm /\ Spm(AXIS_Z) = CartesianSpm
DefiningLength(t) == Abs(t.delta_steps[t.defining_axis])
TenTimesLength(t) ==
  ISqrt(100 * (t.delta_steps[AXIS_X] * t.delta_steps[AXIS_X]
               + t.delta_steps[AXIS_Y] * t.delta_steps[AXIS_Y]
               + t.delta_steps[AXIS_Z] * t.delta_steps[AXIS_Z]))

\* feed * steps_per_mm * (l / L), up to the rounding of L and of the result
EuclideanFrequency(t, s) ==
  /\ s <= (10 * AxisFrequency(t) * DefiningLength(t)) \div TenTimesLength(t)
  /\ s >= (10 * AxisFrequency(t) * DefiningLength(t))
            \div (TenTimesLength(t) + 1)

\* C21 - Euclidean rule: the speed of a target with motion whose defining
\* axis is X, Y or Z is feed * steps_per_mm[defining] * (l / L), clamped to
\* max_axis_speed[defining]; for a pure-XY move with equal deltas that is
\* not clamped, twice the squared speed is (feed * steps_per_mm)^2 (up to
\* one unit of rounding); with defining axis E the speed is
\* feed * steps_per_mm[E], clamped.
C21_EuclideanRule ==
  (MoveAccepted /\ TargetMoves(BufBack(planning_buffer)) /\ EqualCartesianSpm) =>
    LET t == BufBack(planning_buffer)
    IN /\ t.defining_axis \in {AXIS_X, AXIS_Y, AXIS_Z} =>
             \/ /\ t.speed < max_axis_speed(t.defining_axis)
                /\ EuclideanFrequency(t, t.speed)
             \/ /\ t.speed = max_axis_speed(t.defining_axis)
                /\ (10 * AxisFrequency(t) * DefiningLength(t))
                      \div TenTimesLength(t) >= max_axis_speed(t.defining_axis)
       /\ (t.defining_axis = AXIS_X /\ t.delta_steps[AXIS_Z] = 0
             /\ Abs(t.delta_steps[AXIS_X]) = Abs(t.delta_steps[AXIS_Y])
             /\ t.speed < max_axis_speed(AXIS_X)) =>
             /\ 2 * t.speed * t.speed <= AxisFrequency(t) * AxisFrequency(t)
             /\ 2 * (t.speed + 1) * (t.speed + 1)
                  > AxisFrequency(t) * AxisFrequency(t)
       /\ t.defining_axis = AXIS_E =>
             t.speed = Min(AxisFrequency(t), max_axis_speed(AXIS_E))

\* A diagonal in the XY plane at 5 mm/s: 14.1 steps/s on X, not 20.
C21_Witness ==
  /\ MoveAccepted /\ event.kind = "coordinated_move"
  /\ BufBack(planning_buffer).defining_axis = AXIS_X
  /\ BufBack(planning_buffer).delta_steps[AXIS_X] # 0
  /\ BufBack(planning_buffer).delta_steps[AXIS_X]
       = BufBack(planning_buffer).delta_steps[AXIS_Y]
  /\ AxisFrequency(BufBack(planning_buffer)) = 20 * VS
  /\ BufBack(planning_buffer).speed = 141

\* A move with defining axis E
C21_WitnessE ==
  /\ MoveAccepted
  /\ BufBack(planning_buffer).defining_axis = AXIS_E
  /\ BufBack(planning_buffer).speed > 0

\* The ramps the Segmenter computed for the target of call c take at most
\* 16 steps and at most 2 mm together: (f_acc + f_dec) * S = (acc_num +
\* dec_num) / RampDen
RampsAreMicro(c) ==
  /\ HasMotion(c)
  /\ c.acc_num + c.dec_num <= 16 * RampDen(c.target)
  /\ c.acc_num + c.dec_num
       <= 2 * Spm(c.target.defining_axis) * RampDen(c.target)

AllDeltaSteps(c) ==
  AssignAllAxes(ZeroMotors, axis_to_driver, c.target.delta_steps, 1, 1, AXIS_X)

\* One MotorMovement, a cruise that carries all steps of the target
OnlyCruise(c) ==
  /\ Len(c.segs) = 1
  /\ c.segs[1].kind = "move"
  /\ c.segs[1].steps = AllDeltaSteps(c)

C22_OneCruiseAtPlannedSpeed ==
  /\ RampsAreMicro(call) =>
        /\ OnlyCruise(call)
        /\ call.segs[1].v0 = call.target.speed
        /\ call.segs[1].v1 = call.target.speed
        /\ call.out.speed <= call.target.speed
  /\ (RampsAreMicro(call) /\ RampsAreMicro(prev_call)) =>
        Len(call.segs) + Len(prev_call.segs) = 2

\* A suppressed ramp: the target leaves the Segmenter slower than its cruise
C22_Suppressed ==
  /\ RampsAreMicro(call)
  /\ call.acc_num + call.dec_num > 0
  /\ call.out.speed < call.segs[1].v0

\* C23 - Corner angle is between target and upcoming: the junction speed
\* the Segmenter uses for a target with motion is the joining speed of
\* target and upcoming gated by |target.angle - upcoming.angle|, so the
\* per-axis tests are skipped only when that angle is below
\* threshold_angle.
C23_CornerAngle ==
  HasMotion(call) =>
    call.next_speed
      = determine_joining_speed(call.target, call.upcoming, threshold_angle,
                                Abs(call.target.angle - call.upcoming.angle))

\* What the junction speed is gated by: the angle between the target
\* before and the target.
C23_GatedByAngleBefore ==
  HasMotion(call) =>
    call.next_speed
      = determine_joining_speed(call.target, call.upcoming, threshold_angle,
                                Abs(call.last.angle - call.target.angle))

\* The ramps among the segments of call c
Ramps(c) == {i \in 1 .. Len(c.segs) : c.segs[i].kind \in {"accel", "decel"}}

\* |v1^2 - v0^2| of a segment and 2 * a * n for n defining-axis steps, both
\* in (1/VS steps/s)^2
SpeedSquareChange(seg) == Abs(seg.v1 * seg.v1 - seg.v0 * seg.v0)
RampBudget(c, n) ==
  2 * acceleration_for_move(c.target.defining_axis) * VS * VS * n

\* C24 - Acceleration ceiling: every acceleration and deceleration segment
\* the Segmenter enqueues has |v1^2 - v0^2| <= 2 * max_axis_accel[d] * n, n
\* being the defining-axis steps of the segment plus one step for rounding.
C24_AccelerationCeiling ==
  HasMotion(call) =>
    \A i \in Ramps(call) :
      SpeedSquareChange(call.segs[i])
        <= RampBudget(call, Abs(SegAxisSteps(call, call.segs[i].kind,
                                             call.target.defining_axis)) + 1)

\* The Segmenter has run on two targets with motion, one after the other,
\* and enqueued segments for both: prev_call is the call on move i, call
\* the one on move i+1.
ConsecutiveMoves ==
  /\ HasMotion(prev_call) /\ HasMotion(call)
  /\ prev_call.upcoming = call.target
  /\ prev_call.out = call.last
  /\ prev_call.segs # << >> /\ call.segs # << >>

\* Speed v along the defining axis of target t, as speed of axis k
ProjectedSpeed(v, t, k) ==
  (v * Abs(t.delta_steps[k])) \div Abs(t.delta_steps[t.defining_axis])

\* C25 - Shared junction speed: for consecutive moves i and i+1, v1 of the
\* last segment enqueued for i, projected onto the defining axis of i+1,
\* equals v0 of the first segment enqueued for i+1 (up to one unit of
\* rounding).
C25_SharedJunctionSpeed ==
  ConsecutiveMoves =>
    Abs(ProjectedSpeed(LastSeg(prev_call.segs).v1, prev_call.target,
                       call.target.defining_axis)
        - Head(call.segs).v0) <= 1

\* A move too short for its ramps, planned to stop at a turnaround: its
\* only segment is a cruise at the planned speed, and the move after it
\* starts at the peak speed left in the target.
C25_AfterSuppressedRamps ==
  /\ ConsecutiveMoves
  /\ Turnaround(prev_call.target, call.target)
  /\ prev_call.next_speed = 0 /\ ~prev_call.do_accel
  /\ LastSeg(prev_call.segs).v1 = prev_call.target.speed
  /\ Head(call.segs).v0 = prev_call.peak_speed
  /\ prev_call.peak_speed < prev_call.target.speed

\* C26 - Exit-speed bookkeeping: when move_machine_steps returns for a
\* target with motion, target.speed is v_out, the junction speed
\* determine_joining_speed gave, whether or not a deceleration segment was
\* enqueued.
C26_ExitSpeedBookkeeping ==
  HasMotion(call) => call.out.speed = call.next_speed

\* What holds: target.speed is v_out when a deceleration segment was
\* enqueued, and otherwise the planned speed as limited by the peak speed
\* and by the acceleration the steps allow.
C26_ExitSpeedWithDecel ==
  HasMotion(call) =>
    IF \E i \in 1 .. Len(call.segs) : call.segs[i].kind = "decel"
      THEN call.out.speed = call.next_speed
      ELSE /\ call.out.speed = call.cruise
           /\ call.out.speed <= call.target.speed
           /\ call.out.speed <= call.peak_speed

C27_FitsWithAcceleration ==
  HasMotion(call) =>
    /\ call.ok_fraction
    /\ (\/ acceleration_for_move(call.target.defining_axis) > 0
        \/ call.last_speed > 0 \/ call.next_speed > 0) => call.ok_peak

\* A move entered faster than the peak speed it can reach
C27_EntryAbovePeak ==
  /\ HasMotion(call)
  /\ call.last_speed > call.peak_speed
  /\ call.ok_peak /\ call.ok_fraction

\* C28 - No empty segments: every MotorMovement the Segmenter enqueues has
\* a nonzero step count for at least one motor; a ramp whose steps all
\* round to zero is not enqueued.
C28_NoEmptySegments ==
  HasMotion(call) =>
    \A i \in 1 .. Len(call.segs) : HasNonzero(call.segs[i].steps)

\* What holds: a cruise is enqueued only with a nonzero step count, and a
\* ramp whenever its fraction of the move is above 0 and the two ramps
\* together are no micro-segment.
C28_NoEmptyCruise ==
  HasMotion(call) =>
    \A i \in 1 .. Len(call.segs) :
      \/ HasNonzero(call.segs[i].steps)
      \/ /\ call.segs[i].kind = "accel" /\ call.do_accel
         /\ call.acc_num > 0 /\ 2 * call.acc_num < RampDen(call.target)
      \/ /\ call.segs[i].kind = "decel" /\ call.do_accel
         /\ call.dec_num > 0 /\ 2 * call.dec_num < RampDen(call.target)

\* The targets in the planning buffer
Buffered ==
  {BufPeek(planning_buffer, i) : i \in 0 .. (BufSize(planning_buffer) - 1)}

\* The last event appended a halt sentinel and nothing after it
HaltAppended ==
  event.kind \in {"input_idle", "gcode_finished", "dwell", "motors_enable"}

\* C29 - Zero speed marks the halt sentinel: every buffered target has
\* speed >= 0; the target a move appends has speed 0 only if it has no
\* motion (a zero-delta target, as the halt sentinel and the boot pose
\* are); every target with motion reaches the Segmenter with speed > 0.
C29_ZeroSpeedIsHalt ==
  /\ \A t \in Buffered : t.speed >= 0
  /\ MoveAccepted =>
        (BufBack(planning_buffer).speed = 0
           => ~TargetMoves(BufBack(planning_buffer)))
  /\ HasMotion(call) => call.ok_speed

\* What holds: the same on a machine whose speed_factor is above 0, and
\* a halt sentinel always has speed 0.
C29_WithSpeedFactor ==
  /\ cfg.speed_factor > 0 => C29_ZeroSpeedIsHalt
  /\ \A t \in Buffered : t.speed >= 0
  /\ HaltAppended => BufBack(planning_buffer).speed = 0

\* The axes go_home was called for, and those of them it has to home: the
\* ones in home_order that have a home switch
HomeBitmap == {k \in Axes : event.axis[k + 1] = 1}
HasHomeSwitch(k) == k \in MinEndstopHoming \cup MaxEndstopHoming
InHomeOrder(k) == \E i \in 1 .. Len(home_order) : home_order[i] = k
AxesToHome == {k \in HomeBitmap : HasHomeSwitch(k) /\ InHomeOrder(k)}
HomeOrderIndex(k) == CHOOSE i \in 1 .. Len(home_order) : home_order[i] = k

\* The MotorMovements go_home enqueued after the halt
HomingSegs == SelectSeq(enqueued, LAMBDA seg : seg.kind = "home")

\* Segment a comes before segment b in the order of the claim
HomesBefore(a, b) ==
  \/ HomeOrderIndex(a.axis) < HomeOrderIndex(b.axis)
  \/ /\ a.axis = b.axis
     /\ (a.loop = "approach" \/ b.loop = "backoff")

\* The position of homed axis k: 0 at a min switch, move_range_mm at a max
\* switch
HomePosition(k) ==
  IF k \in MinEndstopHoming THEN 0
  ELSE move_range_mm[k + 1] * cfg.steps_per_mm[k + 1]

\* The target before the newest one
BeforeBack(b) == BufPeek(b, BufSize(b) - 2)

\* C30 - Homing of axes: go_home homes, in home_order, the axes of the
\* bitmap that have a home switch: every segment it enqueues is for one of
\* these axes, per axis the approach segments come before the back-off
\* segments and both before the segments of the next axis; afterwards
\* back().position_steps is 0 (min switch) or move_range_mm * steps_per_mm
\* (max switch) for the homed axes and unchanged for the others.
C30_HomingOfAxes ==
  event.kind = "go_home" =>
    /\ \A i \in 1 .. Len(HomingSegs) : HomingSegs[i].axis \in AxesToHome
    /\ \A i \in 1 .. Len(HomingSegs) : \A j \in (i + 1) .. Len(HomingSegs) :
          HomesBefore(HomingSegs[i], HomingSegs[j])
    /\ \A k \in Axes :
          BufBack(planning_buffer).position_steps[k]
            = IF k \in AxesToHome THEN HomePosition(k)
              ELSE BeforeBack(planning_buffer).position_steps[k]

\* X and E homed after a move away from the home position: E first, each
\* with an approach and a back-off segment
C30_Witness ==
  /\ event.kind = "go_home" /\ AxesToHome = {AXIS_X, AXIS_E}
  /\ Len(HomingSegs) = 4
  /\ HomingSegs[1].axis = AXIS_E /\ HomingSegs[1].loop = "approach"
  /\ HomingSegs[2].axis = AXIS_E /\ HomingSegs[2].loop = "backoff"
  /\ HomingSegs[3].axis = AXIS_X /\ HomingSegs[3].loop = "approach"
  /\ HomingSegs[4].axis = AXIS_X /\ HomingSegs[4].loop = "backoff"
  /\ BeforeBack(planning_buffer).position_steps[AXIS_X] # 0
  /\ BufBack(planning_buffer).position_steps[AXIS_X] = 0
  /\ BufBack(planning_buffer).position_steps[AXIS_E] = 3

\* The axis probe_axis was called for, and whether it has an endstop that
\* is not flagged for homing
ProbedAxis(ev) == CHOOSE k \in Axes : ev.axis[k + 1] = 1
HasProbeEndstop(k) == k \in MinEndstopProbe \cup MaxEndstopProbe

\* The steps of axis k in a MotorMovement, read from a driver of the axis
AxisStepsOf(seg, k) ==
  axis_flip(k) * driver_flip(CHOOSE m \in MappedDrivers(k) : TRUE)
    * seg.steps[CHOOSE m \in MappedDrivers(k) : TRUE]

RECURSIVE StepsMoved(_, _)
StepsMoved(segs, k) ==
  IF segs = << >> THEN 0
  ELSE AxisStepsOf(Head(segs), k) + StepsMoved(Tail(segs), k)

ProbingSegs(segs) == SelectSeq(segs, LAMBDA seg : seg.kind = "home")

\* probe_axis on an axis without a travel endstop
ProbeWithoutEndstop(k) ==
  /\ ~event'.accepted
  /\ ProbingSegs(enqueued') = << >>
  /\ BufBack(planning_buffer').position_steps
       = BufBack(planning_buffer).position_steps

\* probe_axis on an axis with a travel endstop
ProbeWithEndstop(k) ==
  /\ event'.accepted
  /\ \A i \in 1 .. Len(ProbingSegs(enqueued')) :
       /\ ProbingSegs(enqueued')[i].loop = "approach"
       /\ ProbingSegs(enqueued')[i].axis = k
  /\ \A j \in Axes :
       BufBack(planning_buffer').position_steps[j]
         = BufBack(planning_buffer).position_steps[j]
           + (IF j = k THEN StepsMoved(ProbingSegs(enqueued'), k) ELSE 0)
  /\ event'.result * cfg.steps_per_mm[k + 1]
       = BufBack(planning_buffer').position_steps[k] * MILLI

\* probe_axis refused for homing
ProbeRefused ==
  /\ ~event'.accepted
  /\ planning_buffer' = planning_buffer
  /\ enqueued' = << >>

ProbingStep(unhomed) ==
  event'.kind = "probe_axis" =>
    IF cfg.require_homing /\ unhomed THEN ProbeRefused
    ELSE IF HasProbeEndstop(ProbedAxis(event'))
      THEN ProbeWithEndstop(ProbedAxis(event'))
      ELSE ProbeWithoutEndstop(ProbedAxis(event'))

\* C31 - Probing: probe_axis uses only an endstop of the axis that is not
\* flagged for homing; without one it fails, enqueues no probing segment
\* and leaves position_steps as it is; with one it enqueues approach
\* segments only, adds the signed steps moved to back().position_steps[axis]
\* and returns that position in mm; with require_homing on a machine that
\* was never homed (no go_home has run) it fails without appending a halt
\* sentinel.
C31_Probing == [][ProbingStep(~history.homed)]_vars

\* The same with "never homed" read as homing_state_ = NEVER_HOMED
C31_ProbingByHomingState ==
  [][ProbingStep(homing_state = HOMING_STATE_NEVER_HOMED)]_vars

\* Z probed at its min switch: one approach segment of -2 steps, -0.5 mm
C31_Probed ==
  /\ event.kind = "probe_axis" /\ event.accepted
  /\ ProbedAxis(event) = AXIS_Z
  /\ Len(ProbingSegs(enqueued)) = 1
  /\ BufBack(planning_buffer).position_steps[AXIS_Z] = -2
  /\ event.result = -500

\* probe_axis of X, which has a home switch only
C31_NoProbe ==
  /\ event.kind = "probe_axis" /\ ~event.accepted
  /\ ProbedAxis(event) = AXIS_X
  /\ BufSize(planning_buffer) = event.size_before + 1

\* probe_axis refused because the machine has to be homed first
C31_RefusedUnhomed ==
  /\ event.kind = "probe_axis" /\ ~event.accepted
  /\ cfg.require_homing /\ homing_state = HOMING_STATE_NEVER_HOMED
  /\ BufSize(planning_buffer) = event.size_before

\* A handler is inside move_to_endstop, in one of its loops
InEndstopLoop == endstop.loop # "none"
InApproach == endstop.loop = "approach"
InBackoff == endstop.loop = "backoff"

\* The same loop on the same axis goes on
SameLoop ==
  /\ endstop'.loop = endstop.loop
  /\ endstop'.axis = endstop.axis /\ endstop'.kind = endstop.kind

\* A get_gpio() of a loop: the loop goes on exactly when the approach did
\* not read the trigger value (the back-off: did read it), and then one
\* segment was enqueued and drained
PollOfLoop ==
  (InEndstopLoop /\ endstop' # endstop) =>
    /\ SameLoop <=> (IF InApproach THEN ~endstop'.read ELSE endstop'.read)
    /\ SameLoop => /\ Len(enqueued') = 1
                   /\ motor_ops' = << "Enqueue", "WaitQueueEmpty" >>
    /\ ~SameLoop => enqueued' = << >>

\* Inside a loop no parser event is processed
NoEventInLoop == InEndstopLoop => (nevents' = nevents /\ event'.kind = event.kind)

\* The endstop reads its trigger value in every approach, and reads
\* de-asserted in every back-off, at some time
EndstopAnswers ==
  /\ [](InApproach => <>(~InApproach /\ endstop.read))
  /\ [](InBackoff => <>(~InBackoff /\ ~endstop.read))

\* C32 - Homing and probing have no timeout: a loop of move_to_endstop is
\* left only by a get_gpio() that reads the trigger value (the back-off
\* loop: that reads it de-asserted); until then every poll enqueues and
\* drains one more segment and no parser event is processed; go_home and
\* probe_axis return if the endstop eventually answers in each loop.
C32_NoTimeout ==
  /\ [][PollOfLoop]_vars
  /\ [][NoEventInLoop]_vars
  /\ (EndstopAnswers => (InEndstopLoop ~> ~InEndstopLoop))

\* Without that, the handler need not return
C32_AlwaysReturns == InEndstopLoop ~> ~InEndstopLoop

\* go_home has returned from the loops of move_to_endstop
C32_ReturnedAfterPolls ==
  /\ event.kind = "go_home" /\ ~InEndstopLoop
  /\ homing_state = HOMING_STATE_HOMED
  /\ history.homed /\ ~endstop.read

\* The approach loop after MaxPolls untriggered polls
C32_StillPolling ==
  /\ InApproach /\ endstop.polls = MaxPolls /\ ~endstop.read
  /\ event.kind = "probe_axis"

\* The remembered feedrate after an event: set by a coordinated move that is
\* accepted and has a feed, kept by everything else
C33_Remembered ==
  current_feedrate' =
    IF event'.kind = "coordinated_move" /\ event'.accepted /\ event'.feed > 0
      THEN cfg_speed_factor * event'.feed
      ELSE current_feedrate

\* The feedrate a move is planned with, before the program speed factor
C33_MoveFeedrate(ev, remembered) ==
  IF ev.kind = "coordinated_move" THEN remembered
  ELSE IF ev.feed > 0 THEN cfg_speed_factor * ev.feed
  ELSE HighestFeedrate * MILLI

C33_PlannedWith(factor) ==
  (event'.kind \in MoveKinds /\ event'.accepted) =>
    BufBack(planning_buffer').speed
      = ScaledSpeed(BufBack(planning_buffer'), factor,
                    C33_MoveFeedrate(event', current_feedrate'))

\* C33 - Feedrate memory: a coordinated_move with feed > 0 stores
\* speed_factor * feed as the remembered feedrate, one with feed <= 0 plans
\* with the remembered value; rapid_move never changes the remembered
\* feedrate and without a positive feed plans with the highest max_feedrate
\* of all axes; both are planned with the program speed factor of the time
\* of the move applied.
C33_FeedrateMemory ==
  [][C33_Remembered /\ C33_PlannedWith(prog_speed_factor)]_vars

\* What is remembered, and how coordinated moves and rapid moves with a feed
\* of their own are planned
C33_RememberedAndGiven ==
  [][/\ C33_Remembered
     /\ (event'.kind = "coordinated_move" \/ event'.feed > 0)
          => C33_PlannedWith(prog_speed_factor)]_vars

\* A coordinated move without a feed after one with a feed, planned with the
\* remembered feedrate
C33_Reused ==
  /\ event.kind = "coordinated_move" /\ event.accepted /\ event.feed <= 0
  /\ current_feedrate # InitialFeedrate
  /\ TargetMoves(BufBack(planning_buffer))

\* The targets that wait for the Segmenter: all but the oldest, which is
\* the established position
WaitingTargets == BufSize(planning_buffer) - 1

\* C34 - Between parser events the planning buffer of a machine holds 1 or 2
\* AxisTargets: it is never empty, an event that finds 2 and appends a third
\* has the Segmenter called and one target popped before it ends, and at
\* most one target waits un-segmented.
C34_OneOrTwoTargets ==
  created =>
    /\ BufSize(planning_buffer) \in {1, 2}
    /\ call.called => event.size_before = 2
    /\ (event.size_before = 2 /\ event.accepted
          /\ event.kind \in AppendingKinds) => call.called
    /\ WaitingTargets <= 1

\* A third accepted move: the buffer held two targets before it and holds
\* two after it, one of them waiting
C34_Witness ==
  /\ nevents = MaxAllEvents /\ event.kind \in MoveKinds /\ event.accepted
  /\ event.size_before = 2 /\ call.called
  /\ BufSize(planning_buffer) = 2 /\ WaitingTargets = 1

\* The steps of axis k in a MotorMovement go the way of the target's
\* delta_steps, or are none
WithDelta(seg, t, k) ==
  \/ AxisStepsOf(seg, k) = 0
  \/ Sgn(AxisStepsOf(seg, k)) = Sgn(t.delta_steps[k])

\* C35 - No reversed steps inside a move: in every MotorMovement the
\* Segmenter enqueues for a target, the steps of each axis (before the
\* flips) are zero or have the sign of the target's delta_steps on that
\* axis; the cruise remainder never has the opposite sign.  (Of the runs in
\* which no assert() has failed, on a machine with a clean motor mapping.)
C35_NoReversedSteps ==
  (HasMotion(call) /\ CleanMapping /\ history.asserts_ok) =>
    \A i \in 1 .. Len(call.segs) : \A k \in Axes :
      WithDelta(call.segs[i], call.target, k)

\* The same of the two ramps alone
C35_RampsGoWithDelta ==
  (HasMotion(call) /\ CleanMapping) =>
    \A i \in 1 .. Len(call.segs) : \A k \in Axes :
      call.segs[i].kind # "move" => WithDelta(call.segs[i], call.target, k)

\* C36 - Homing and probing keep the auxiliary outputs: every MotorMovement
\* that move_to_endstop enqueues during go_home or probe_axis carries
\* aux_bits equal to the current aux mask.
C36_HomingKeepsAux ==
  event.kind \in {"go_home", "probe_axis"} =>
    \A i \in 1 .. Len(enqueued) :
      enqueued[i].kind = "home" => enqueued[i].aux_bits = aux_bits

\* The same of the segments of the move that is finished before homing
C36_PendingMoveKeepsAux ==
  event.kind \in {"go_home", "probe_axis"} =>
    \A i \in 1 .. Len(enqueued) :
      enqueued[i].kind # "home" => enqueued[i].aux_bits = call.target.aux_bits

\* The Segmenter was called with a halt sentinel as last_pos, and the
\* sentinel is in a ring slot that an older target had been in.  (Every
\* event of SpecRing appends; a target without steps is a halt sentinel.)
AfterSentinel ==
  /\ HasMotion(call) /\ history.asserts_ok
  /\ call.last.delta_steps = ZeroAxes
  /\ nevents - 2 > RingSize

\* The angles an older target can have left in a slot
ResidueAngles == {0, 90 * DEG}

\* The MotorMovements of the call, had the slot of the sentinel held angle
SegsWithResidue(angle) ==
  move_machine_steps([call.last EXCEPT !.angle = angle], call.target,
                     call.upcoming, axis_to_driver).segs

\* C37 - A halt sentinel is fully determined by the current state:
\* bring_path_to_halt assigns every field of the appended AxisTarget that
\* later planning reads, so what an older, consumed target left in the
\* reused ring slot makes no difference to the MotorMovements of the moves
\* that follow.
C37_SentinelDetermined ==
  AfterSentinel => \A a \in ResidueAngles : SegsWithResidue(a) = call.segs

\* What the sentinel does determine: position, deltas, defining axis, speed
\* and aux mask
C37_AssignedFields ==
  (event'.kind \in HaltingKinds /\ event'.accepted) =>
    /\ BufBack(planning_buffer').position_steps
         = BufBack(planning_buffer).position_steps
    /\ BufBack(planning_buffer').delta_steps = ZeroAxes
    /\ BufBack(planning_buffer').defining_axis = AXIS_X
    /\ BufBack(planning_buffer').speed = 0
    /\ BufBack(planning_buffer').aux_bits = aux_bits
C37_AllButAngle == [][C37_AssignedFields]_vars

\* The same last three events after a first move along X and after a first
\* move along Y: the sentinel has the angle of that first move
\* and the move after it is planned without and with a deceleration
SentinelThenX ==
  /\ AfterSentinel /\ nevents = RingSize + 3 /\ event.kind = "input_idle"
  /\ call.last.position_steps[AXIS_X] = 0
  /\ call.last.position_steps[AXIS_Y] = 40
  /\ call.target.delta_steps = [k \in Axes |-> IF k = AXIS_X THEN 40 ELSE 0]
C37_OverX ==
  /\ SentinelThenX /\ call.last.angle = 0
  /\ Len(call.segs) = 2 /\ call.segs[2].kind = "move"
C37_OverY ==
  /\ SentinelThenX /\ call.last.angle = 90 * DEG
  /\ Len(call.segs) = 3 /\ call.segs[3].kind = "decel"

\* M114 is the event ev
IsM114(ev) == ev.kind = "special_commands" /\ ev.feed = 114

\* The axes the latest event homed (go_home) or probed (probe_axis)
HomedOrProbed ==
  IF event.kind = "go_home" THEN AxesToHome
  ELSE IF event.kind = "probe_axis" /\ event.accepted THEN {ProbedAxis(event)}
  ELSE {}

\* What M114 would print for position_steps of target t on axis k
InMilli(t, k) == ProbeResult(t.position_steps[k], k)

\* C38 - M114 reports the position that planning uses: an M114 that
\* follows go_home (or probe_axis) reports, for every axis that was homed
\* (probed), back().position_steps[axis] / steps_per_mm[axis], which for a
\* homed axis is the home position 0 or move_range_mm.
M114AfterHoming ==
  (IsM114(event') /\ event.kind \in {"go_home", "probe_axis"}) =>
    \A k \in HomedOrProbed :
      /\ event'.axis[k + 1] = InMilli(BufBack(planning_buffer'), k)
      /\ event.kind = "go_home" =>
            event'.axis[k + 1] = ProbeResult(HomePosition(k), k)
C38_M114ReportsPlanningPosition == [][M114AfterHoming]_vars

\* What it reports instead: the position of planning_buffer_[0], which
\* after go_home or probe_axis is the target before the halt sentinel that
\* home_axis and probe_axis write to
M114ReportsOldest ==
  (IsM114(event') /\ event.kind \in {"go_home", "probe_axis"}
                  /\ event.accepted) =>
    \A k \in Axes :
      event'.axis[k + 1] = InMilli(BeforeBack(planning_buffer'), k)
C38_ReportsTargetBeforeSentinel == [][M114ReportsOldest]_vars

\* A move to X = 10 mm, go_home of X, M114: X:10.000 is reported while
\* planning goes on from X = 0
C38_ReportedBeforeHoming ==
  /\ IsM114(event) /\ history.homed
  /\ event.axis[AXIS_X + 1] = 10 * MILLI
  /\ BufBack(planning_buffer).position_steps[AXIS_X] = 0

\* A probe of Z that moved, M114: Z as it was before the probe
C38_ReportedBeforeProbe ==
  /\ IsM114(event) /\ history.probed
  /\ event.axis[AXIS_Z + 1] # InMilli(BufBack(planning_buffer), AXIS_Z)

====
